---- MODULE Spec2Model ----
(***************************************************************************)
(* Schema synchronisation of unbook: diffSchema (the schema diff engine)   *)
(* and applySchemaChanges (the change applier), modelled from              *)
(* packages/core/src/utils.                                                *)
(*                                                                         *)
(* A Schema.Definition is a JavaScript object; Object.entries lists its    *)
(* string keys in insertion order, so a schema is modelled as a sequence   *)
(* of entries [key, field] with pairwise distinct keys.                    *)
(*                                                                         *)
(* The module holds one specification per group of functions:              *)
(*   Spec        diffSchema and applySchemaChanges                         *)
(*   CodecSpec   dehydrateValue and hydrateValue (the value codec)         *)
(*   RecordSpec  dehydrate and hydrate (the record codec)                  *)
(*   ExprSpec    restoreExpression and buildExpression                     *)
(*   InferSpec   inferSchema                                               *)
(*   FilterSpec  buildUpsertFilter                                         *)
(*   SourceSpec  the DataSource entity over an adapter                     *)
(*   MatchSpec   dehydrate and buildUpsertFilter on one record             *)
(* The variables of the other groups keep their idle value in each.        *)
(***************************************************************************)
EXTENDS Integers, Sequences, FiniteSets, TLC

VARIABLES from, to, pc, diffs, processedFromKeys, matches,
          strategy, outcome, fromP, toP, diffsP,
          vField, vValue, vProperty, vHydrated, vpc,
          rSchema, rData, rProperties, rResult, rpc,
          xParts, xExpression, xDataSourceId, xSchema, xResult, xpc,
          iProperties, iResult, ipc,
          uSchema, uKeys, uData, uOutcome, upc,
          instances, remote, adapterCalls, dThis, dCall, dLocals, dOutcome,
          dRound, dpc,
          mSchema, mData, mWritten, mFilter, mpc

schemaVars == <<from, to, pc, diffs, processedFromKeys, matches,
                strategy, outcome, fromP, toP, diffsP>>

codecVars == <<vField, vValue, vProperty, vHydrated, vpc>>

recordVars == <<rSchema, rData, rProperties, rResult, rpc>>

exprVars == <<xParts, xExpression, xDataSourceId, xSchema, xResult, xpc>>

inferVars == <<iProperties, iResult, ipc>>

filterVars == <<uSchema, uKeys, uData, uOutcome, upc>>

sourceVars == <<instances, remote, adapterCalls, dThis, dCall, dLocals, dOutcome,
                dRound, dpc>>

matchVars == <<mSchema, mData, mWritten, mFilter, mpc>>

vars == <<schemaVars, codecVars, recordVars, exprVars, inferVars, filterVars,
          sourceVars, matchVars>>

(* The idle values of each group of variables.                             *)
SchemaIdle ==
    /\ from = <<>> /\ to = <<>> /\ pc = "idle" /\ diffs = <<>>
    /\ processedFromKeys = {} /\ matches = <<>> /\ strategy = "undefined"
    /\ outcome = [threw |-> FALSE] /\ fromP = <<>> /\ toP = <<>> /\ diffsP = <<>>

CodecIdle ==
    /\ vField = <<>> /\ vValue = <<>> /\ vProperty = <<>> /\ vHydrated = <<>>
    /\ vpc = "idle"

RecordIdle ==
    /\ rSchema = <<>> /\ rData = <<>> /\ rProperties = <<>> /\ rResult = <<>>
    /\ rpc = "idle"

ExprIdle ==
    /\ xParts = <<>> /\ xExpression = <<>> /\ xDataSourceId = "" /\ xSchema = <<>>
    /\ xResult = <<>> /\ xpc = "idle"

InferIdle == iProperties = <<>> /\ iResult = <<>> /\ ipc = "idle"

FilterIdle ==
    /\ uSchema = <<>> /\ uKeys = <<>> /\ uData = <<>> /\ uOutcome = <<>>
    /\ upc = "idle"

SourceIdle ==
    /\ instances = <<>> /\ remote = <<>> /\ adapterCalls = <<>> /\ dThis = 0
    /\ dCall = <<>> /\ dLocals = <<>> /\ dOutcome = <<>> /\ dRound = 0
    /\ dpc = "idle"

MatchIdle ==
    /\ mSchema = <<>> /\ mData = <<>> /\ mWritten = <<>> /\ mFilter = <<>>
    /\ mpc = "idle"

----------------------------------------------------------------------------
(* Bounds of the model.                                                    *)

MaxIds == 1

IdNames == <<"x", "y", "z">>

Keys == {"a", "b"}
Labels == {"L1", "L2"}
Ids == {IdNames[i] : i \in 1..MaxIds}

(* The absent value of JavaScript (an omitted id, an omitted argument).    *)
Undefined == "undefined"

(* Field types of the model: the singleton type and one ordinary type.     *)
Types == {"title", "rich_text"}

(* const SINGLETON_TYPES = new Set(['title'])                              *)
SINGLETON_TYPES == {"title"}

(* type ConflictStrategy = 'merge' | 'overwrite' | 'strict'                *)
ConflictStrategy == {"merge", "overwrite", "strict"}

(* Schema.Field, restricted to what diffSchema and applySchemaChanges read *)
Field == [label : Labels, type : Types, id : Ids \cup {Undefined}]

Entry == [key : Keys, field : Field]

(* Schema.Definition: distinct keys, at most one field of a singleton type *)
IsSchema(s) ==
    /\ \A i, j \in DOMAIN s : s[i].key = s[j].key => i = j
    /\ \A i, j \in DOMAIN s :
          (s[i].field.type \in SINGLETON_TYPES /\ s[i].field.type = s[j].field.type) => i = j

Definition == {s \in UNION {[1..n -> Entry] : n \in 0..Cardinality(Keys)} : IsSchema(s)}

----------------------------------------------------------------------------
(* Helpers for JavaScript values.                                          *)

(* if (field.id) ...: an id is used only when it is a non-empty string.    *)
Truthy(v) == v # Undefined

Max(S) == CHOOSE m \in S : \A n \in S : n <= m

(* Map.set overwrites: the entry a lookup map holds for a value is the     *)
(* last entry of the schema that was stored under it (0: none).            *)
LastIndex(I) == IF I = {} THEN 0 ELSE Max(I)

(* removed.map(d => d.key)                                                 *)
keysOf(ds) == [i \in 1..Len(ds) |-> ds[i].key]

Range(s) == {s[i] : i \in DOMAIN s}

----------------------------------------------------------------------------
(* diffSchema                                                              *)

(* findMatch with a label lookup that ignores processedFromKeys.           *)
findMatch_reuseLabel(f, processed, toKey, toField) ==
    LET byId    == IF Truthy(toField.id)
                   THEN LastIndex({i \in DOMAIN f : f[i].field.id = toField.id})
                   ELSE 0
        byKey   == LastIndex({i \in DOMAIN f : f[i].key = toKey})
        byLabel == LastIndex({i \in DOMAIN f : f[i].field.label = toField.label})
        byType  == IF toField.type \in SINGLETON_TYPES
                   THEN LastIndex({i \in DOMAIN f : f[i].field.type = toField.type})
                   ELSE 0
    IN  IF byId # 0 /\ f[byId].key \notin processed THEN byId
        ELSE IF byKey # 0 /\ toKey \notin processed THEN byKey
        ELSE IF byLabel # 0 THEN byLabel
        ELSE IF byType # 0 /\ f[byType].key \notin processed THEN byType
        ELSE 0

(* findMatch without the singleton-type fallback.                          *)
findMatch_noSingleton(f, processed, toKey, toField) ==
    LET byId    == IF Truthy(toField.id)
                   THEN LastIndex({i \in DOMAIN f : f[i].field.id = toField.id})
                   ELSE 0
        byKey   == LastIndex({i \in DOMAIN f : f[i].key = toKey})
        byLabel == LastIndex({i \in DOMAIN f : f[i].field.label = toField.label})
    IN  IF byId # 0 /\ f[byId].key \notin processed THEN byId
        ELSE IF byKey # 0 /\ toKey \notin processed THEN byKey
        ELSE IF byLabel # 0 /\ f[byLabel].key \notin processed THEN byLabel
        ELSE 0

(* findMatch with a type fallback for every type, not only the singletons. *)
findMatch_anyType(f, processed, toKey, toField) ==
    LET byId    == IF Truthy(toField.id)
                   THEN LastIndex({i \in DOMAIN f : f[i].field.id = toField.id})
                   ELSE 0
        byKey   == LastIndex({i \in DOMAIN f : f[i].key = toKey})
        byLabel == LastIndex({i \in DOMAIN f : f[i].field.label = toField.label})
        byType  == LastIndex({i \in DOMAIN f : f[i].field.type = toField.type})
    IN  IF byId # 0 /\ f[byId].key \notin processed THEN byId
        ELSE IF byKey # 0 /\ toKey \notin processed THEN byKey
        ELSE IF byLabel # 0 /\ f[byLabel].key \notin processed THEN byLabel
        ELSE IF byType # 0 /\ f[byType].key \notin processed THEN byType
        ELSE 0

(* findMatch: the index in `from` of the field matched to the `to` field,  *)
(* 0 when there is none.                                                   *)
findMatch(f, processed, toKey, toField) ==
    LET byId    == IF Truthy(toField.id)
                   THEN LastIndex({i \in DOMAIN f : f[i].field.id = toField.id})
                   ELSE 0
        byKey   == LastIndex({i \in DOMAIN f : f[i].key = toKey})
        byLabel == LastIndex({i \in DOMAIN f : f[i].field.label = toField.label})
        byType  == IF toField.type \in SINGLETON_TYPES
                   THEN LastIndex({i \in DOMAIN f : f[i].field.type = toField.type})
                   ELSE 0
    IN  IF byId # 0 /\ f[byId].key \notin processed THEN byId
        ELSE IF byKey # 0 /\ toKey \notin processed THEN byKey
        ELSE IF byLabel # 0 /\ f[byLabel].key \notin processed THEN byLabel
        ELSE IF byType # 0 /\ f[byType].key \notin processed THEN byType
        ELSE 0

(* const changes: string[] = [] ... changes.push('key' | 'label' | 'type') *)
computeChanges(fromKey, fromField, toKey, toField) ==
    (IF fromKey # toKey THEN <<"key">> ELSE <<>>)
    \o (IF fromField.label # toField.label THEN <<"label">> ELSE <<>>)
    \o (IF fromField.type # toField.type THEN <<"type">> ELSE <<>>)

(* modifiedDiff that sets fromKey on every entry.                          *)
modifiedDiff_alwaysFromKey(fromKey, fromField, toKey, toField, changes) ==
    [type |-> "modified", key |-> toKey, from |-> fromField, to |-> toField,
     changes |-> changes, fromKey |-> fromKey]
    @@ (IF Truthy(fromField.id) THEN [id |-> fromField.id] ELSE [x \in {} |-> Undefined])

(* modifiedDiff that takes the id from the `to` field.                     *)
modifiedDiff_idOfTo(fromKey, fromField, toKey, toField, changes) ==
    [type |-> "modified", key |-> toKey, from |-> fromField, to |-> toField,
     changes |-> changes]
    @@ (IF Truthy(toField.id) THEN [id |-> toField.id] ELSE [x \in {} |-> Undefined])
    @@ (IF fromKey # toKey THEN [fromKey |-> fromKey] ELSE [x \in {} |-> Undefined])
(* The Schema.Diff.Modified entry of a match with at least one change.     *)
modifiedDiff(fromKey, fromField, toKey, toField, changes) ==
    [type |-> "modified", key |-> toKey, from |-> fromField, to |-> toField,
     changes |-> changes]
    @@ (IF Truthy(fromField.id) THEN [id |-> fromField.id] ELSE [x \in {} |-> Undefined])
    @@ (IF fromKey # toKey THEN [fromKey |-> fromKey] ELSE [x \in {} |-> Undefined])

(* processTo that pushes a modified entry for every match, changed or not. *)
processTo_emitUnchanged(f, st, e) ==
    LET m == findMatch(f, st.processedFromKeys, e.key, e.field)
    IN  IF m = 0
        THEN [st EXCEPT !.diffs = Append(@, [type |-> "added", key |-> e.key, field |-> e.field]),
                        !.matches = Append(@, 0)]
        ELSE [diffs |-> Append(st.diffs,
                               modifiedDiff(f[m].key, f[m].field, e.key, e.field,
                                            computeChanges(f[m].key, f[m].field, e.key, e.field))),
              processedFromKeys |-> st.processedFromKeys \cup {f[m].key},
              matches |-> Append(st.matches, m)]

(* One iteration of the loop over Object.entries(to).  st holds the diffs  *)
(* pushed so far, processedFromKeys, and per processed `to` field the index *)
(* of the `from` field it matched (0: none).                               *)
processTo(f, st, e) ==
    LET m == findMatch(f, st.processedFromKeys, e.key, e.field)
    IN  IF m = 0
        THEN [st EXCEPT !.diffs = Append(@, [type |-> "added", key |-> e.key, field |-> e.field]),
                        !.matches = Append(@, 0)]
        ELSE LET changes == computeChanges(f[m].key, f[m].field, e.key, e.field)
             IN  [diffs |-> IF Len(changes) > 0
                            THEN Append(st.diffs,
                                        modifiedDiff(f[m].key, f[m].field, e.key, e.field, changes))
                            ELSE st.diffs,
                  processedFromKeys |-> st.processedFromKeys \cup {f[m].key},
                  matches |-> Append(st.matches, m)]

RECURSIVE processAll(_, _, _, _)
processAll(f, t, i, st) ==
    IF i > Len(t) THEN st ELSE processAll(f, t, i + 1, processTo(f, st, t[i]))

(* The removed entries: fields of `from` no `to` field consumed.           *)
removedDiffs(f, processed) ==
    LET unmatched == SelectSeq(f, LAMBDA e : e.key \notin processed)
    IN  [i \in 1..Len(unmatched) |->
            [type |-> "removed", key |-> unmatched[i].key, field |-> unmatched[i].field]]

(* The whole run of diffSchema, with its bookkeeping.                      *)
diffSchemaRun(f, t) ==
    LET st == processAll(f, t, 1,
                         [diffs |-> <<>>, processedFromKeys |-> {}, matches |-> <<>>])
    IN  [st EXCEPT !.diffs = @ \o removedDiffs(f, st.processedFromKeys)]

diffSchema(f, t) == diffSchemaRun(f, t).diffs

----------------------------------------------------------------------------
(* toPropertyDefinition, for the types of the model                        *)

(* null: the value that deletes a remote property.                         *)
Null == [null |-> TRUE]

(* { type, id, [type]: {} } with id = field.id ?? undefined; the body of a *)
(* title or rich_text definition is the empty object.                      *)
toPropertyDefinition(field) == [type |-> field.type, id |-> field.id]

----------------------------------------------------------------------------
(* applySchemaChanges                                                      *)

(* result[key] = value on a Record<string, ...>                            *)
Put(r, k, v) == [x \in (DOMAIN r) \cup {k} |-> IF x = k THEN v ELSE r[x]]

EmptyRecord == [x \in {} |-> Null]

(* localSchema[diff.key]: the index of the entry, 0 when it is undefined.  *)
schemaIndex(schema, key) == LastIndex({i \in DOMAIN schema : schema[i].key = key})

(* for (const diff of added): one iteration.                               *)
applyAdded(result, localSchema, diff) ==
    LET i == schemaIndex(localSchema, diff.key)
    IN  IF i = 0 THEN result
        ELSE Put(result, localSchema[i].field.label,
                 toPropertyDefinition(localSchema[i].field))

(* modifiedTarget that always writes under the current label.              *)
modifiedTarget_newLabel(field, diff) == field.label

(* The key a modified entry is written under and the definition written.   *)
modifiedTarget(field, diff) ==
    IF "label" \in Range(diff.changes) THEN diff.from.label ELSE field.label

modifiedDefinition(field, diff) ==
    LET definition == toPropertyDefinition(field)
        id         == IF "id" \in DOMAIN diff THEN diff.id ELSE diff.from.id
        withId     == IF Truthy(id) THEN [definition EXCEPT !.id = id] ELSE definition
    IN  IF "label" \in Range(diff.changes)
        THEN withId @@ [name |-> field.label]
        ELSE withId

(* for (const diff of modified): one iteration.                            *)
applyModified(result, localSchema, diff) ==
    LET i == schemaIndex(localSchema, diff.key)
    IN  IF i = 0 THEN result
        ELSE Put(result, modifiedTarget(localSchema[i].field, diff),
                 modifiedDefinition(localSchema[i].field, diff))

(* for (const d of removed) result[d.field.label] = null: one iteration.   *)
applyRemoved(result, diff) == Put(result, diff.field.label, Null)

RECURSIVE applyAll(_, _, _, _)
applyAll(result, localSchema, ds, i) ==
    IF i > Len(ds) THEN result
    ELSE applyAll(IF ds[i].type = "added" THEN applyAdded(result, localSchema, ds[i])
                  ELSE IF ds[i].type = "modified" THEN applyModified(result, localSchema, ds[i])
                  ELSE applyRemoved(result, ds[i]),
                  localSchema, ds, i + 1)

(* Array.prototype.join on a list of keys: the pieces of the string.       *)
RECURSIVE join(_, _)
join(keys, sep) ==
    IF Len(keys) = 0 THEN <<>>
    ELSE IF Len(keys) = 1 THEN <<keys[1]>>
    ELSE <<keys[1], sep>> \o join(Tail(keys), sep)

(* strategy: ConflictStrategy = 'merge'                                    *)
defaultStrategy(arg) == IF arg = Undefined THEN "merge" ELSE arg

(* removedOutcome whose strict mode tolerates a single removed entry.      *)
removedOutcome_strictNeedsTwo(result, removed, strat) ==
    IF Len(removed) > 1 /\ strat = "strict"
    THEN [threw |-> TRUE,
          message |-> <<"Unrecognized remote fields: ">>
                      \o join(keysOf(removed), ", ")]
    ELSE IF Len(removed) > 0 /\ strat = "overwrite"
    THEN [threw |-> FALSE, result |-> applyAll(result, <<>>, removed, 1)]
    ELSE [threw |-> FALSE, result |-> result]

(* removedOutcome that deletes the removed fields under every strategy     *)
(* other than strict.                                                      *)
removedOutcome_mergeDeletes(result, removed, strat) ==
    IF Len(removed) > 0 /\ strat = "strict"
    THEN [threw |-> TRUE,
          message |-> <<"Unrecognized remote fields: ">>
                      \o join(keysOf(removed), ", ")]
    ELSE IF Len(removed) > 0
    THEN [threw |-> FALSE, result |-> applyAll(result, <<>>, removed, 1)]
    ELSE [threw |-> FALSE, result |-> result]

(* What the strategy does with the removed entries.                        *)
removedOutcome(result, removed, strat) ==
    IF Len(removed) > 0 /\ strat = "strict"
    THEN [threw |-> TRUE,
          message |-> <<"Unrecognized remote fields: ">>
                      \o join(keysOf(removed), ", ")]
    ELSE IF Len(removed) > 0 /\ strat = "overwrite"
    THEN [threw |-> FALSE, result |-> applyAll(result, <<>>, removed, 1)]
    ELSE [threw |-> FALSE, result |-> result]

(* The call: added entries first, then modified, then removed.  A thrown   *)
(* error carries its message and no result.                                *)
applySchemaChanges(localSchema, ds, arg) ==
    LET added    == SelectSeq(ds, LAMBDA d : d.type = "added")
        removed  == SelectSeq(ds, LAMBDA d : d.type = "removed")
        modified == SelectSeq(ds, LAMBDA d : d.type = "modified")
        result   == applyAll(applyAll(EmptyRecord, localSchema, added, 1),
                             localSchema, modified, 1)
    IN  removedOutcome(result, removed, defaultStrategy(arg))

(* Every order in which the entries of a schema can have been inserted.    *)
insertionOrders(s) == {p \in [1..Len(s) -> Range(s)] : Range(p) = Range(s)}

----------------------------------------------------------------------------
(* State machine: the inputs are drawn in Init, the actions call the code. *)

Init ==
    /\ from \in Definition
    /\ to \in Definition
    /\ pc = "start"
    /\ diffs = <<>>
    /\ processedFromKeys = {}
    /\ matches = <<>>
    /\ strategy = Undefined
    /\ outcome = [threw |-> FALSE]
    /\ fromP = <<>>
    /\ toP = <<>>
    /\ diffsP = <<>>
    /\ CodecIdle /\ RecordIdle /\ ExprIdle /\ InferIdle /\ FilterIdle /\ SourceIdle
    /\ MatchIdle

(* const diff = diffSchema(from, to)                                       *)
DiffSchema ==
    /\ pc = "start"
    /\ LET run == diffSchemaRun(from, to)
       IN  /\ diffs' = run.diffs
           /\ processedFromKeys' = run.processedFromKeys
           /\ matches' = run.matches
    /\ pc' = "diffed"
    /\ UNCHANGED <<from, to, strategy, outcome, fromP, toP, diffsP>>
    /\ UNCHANGED <<codecVars, recordVars, exprVars, inferVars, filterVars, sourceVars,
                 matchVars>>

(* applySchemaChanges(to, diff, strategy), the strategy possibly omitted    *)
ApplySchemaChanges ==
    /\ pc = "diffed"
    /\ \E arg \in ConflictStrategy \cup {Undefined} :
          /\ strategy' = arg
          /\ outcome' = applySchemaChanges(to, diffs, arg)
    /\ pc' = "applied"
    /\ UNCHANGED <<from, to, diffs, processedFromKeys, matches, fromP, toP, diffsP>>
    /\ UNCHANGED <<codecVars, recordVars, exprVars, inferVars, filterVars, sourceVars,
                 matchVars>>

(* diffSchema again, on the same two schemas with their fields inserted in *)
(* another order.                                                          *)
DiffPermuted ==
    /\ pc = "diffed"
    /\ \E p \in insertionOrders(from), q \in insertionOrders(to) :
          /\ fromP' = p
          /\ toP' = q
          /\ diffsP' = diffSchema(p, q)
    /\ pc' = "permuted"
    /\ UNCHANGED <<from, to, diffs, processedFromKeys, matches, strategy, outcome>>
    /\ UNCHANGED <<codecVars, recordVars, exprVars, inferVars, filterVars, sourceVars,
                 matchVars>>

Next ==
    \/ DiffSchema
    \/ ApplySchemaChanges
    \/ DiffPermuted

Spec == Init /\ [][Next]_vars

----------------------------------------------------------------------------
(* Vocabulary of the properties.                                           *)

diffed == pc # "start"

isAdded(d) == d.type = "added"
isRemoved(d) == d.type = "removed"
isModified(d) == d.type = "modified"

(* The positions in diffs of the entries of the given kind and key.        *)
entriesAt(kind, k) == {i \in DOMAIN diffs : diffs[i].type = kind /\ diffs[i].key = k}

countOf(kind) == Cardinality({i \in DOMAIN diffs : diffs[i].type = kind})

(* Labels, and the ids that are set, are pairwise distinct in a schema.    *)
uniqueLabels(s) ==
    \A i, j \in DOMAIN s : s[i].field.label = s[j].field.label => i = j

uniqueIds(s) ==
    \A i, j \in DOMAIN s :
        (Truthy(s[i].field.id) /\ s[i].field.id = s[j].field.id) => i = j

titleOf(s) == LastIndex({i \in DOMAIN s : s[i].field.type = "title"})

----------------------------------------------------------------------------
(* C1: for every schema S, diffSchema(S, S) is the empty list.             *)
C1_NoSelfDiff == (diffed /\ from = to) => Len(diffs) = 0

(* The three cases of the `to` field at position j: Added, Modified with   *)
(* at least one change, or matched without change and without entry.      *)
C2_KeyCase(j) ==
    LET k  == to[j].key
        nA == Cardinality(entriesAt("added", k))
        nM == Cardinality(entriesAt("modified", k))
        m  == matches[j]
    IN  \/ /\ m = 0 /\ nA = 1 /\ nM = 0
           /\ \A i \in entriesAt("added", k) : diffs[i].field = to[j].field
        \/ /\ m # 0 /\ nA = 0 /\ nM = 1
           /\ \A i \in entriesAt("modified", k) :
                 /\ Len(diffs[i].changes) > 0
                 /\ diffs[i].from = from[m].field
                 /\ diffs[i].to = to[j].field
           /\ \/ from[m].key # k
              \/ from[m].field.label # to[j].field.label
              \/ from[m].field.type # to[j].field.type
        \/ /\ m # 0 /\ nA = 0 /\ nM = 0
           /\ from[m].key = k
           /\ from[m].field.label = to[j].field.label
           /\ from[m].field.type = to[j].field.type

(* C2 as stated: every key of `to` is in exactly one of the cases Added,   *)
(* Modified, matched without change, and appears in no two diff entries of *)
(* any kind.                                                               *)
C2_Original ==
    diffed =>
        \A j \in DOMAIN to :
            /\ C2_KeyCase(j)
            /\ Cardinality({i \in DOMAIN diffs : diffs[i].key = to[j].key}) <= 1

(* C2 as amended: every key of `to` is in exactly one of the three cases   *)
(* and is the key of at most one Added or Modified entry; it may also be   *)
(* the key of a Removed entry.                                             *)
C2_Theorem ==
    diffed => (Len(matches) = Len(to) /\ \A j \in DOMAIN to : C2_KeyCase(j))

C2_Witness ==
    /\ diffed
    /\ \E i, j \in DOMAIN diffs :
          /\ isModified(diffs[i]) /\ isRemoved(diffs[j])
          /\ diffs[i].key = diffs[j].key

(* C3: each `from` field is matched to at most one `to` field, it is       *)
(* Removed exactly when no `to` field matched it, and                      *)
(* |to| - |Added| = |from| - |Removed|.                                    *)
C3_Theorem ==
    diffed =>
        /\ Len(matches) = Len(to)
        /\ \A i, j \in DOMAIN matches :
              (matches[i] # 0 /\ matches[i] = matches[j]) => i = j
        /\ \A j \in DOMAIN matches : (matches[j] = 0) <=> (entriesAt("added", to[j].key) # {})
        /\ \A m \in DOMAIN from :
              /\ Cardinality(entriesAt("removed", from[m].key)) <= 1
              /\ (entriesAt("removed", from[m].key) # {}) <=> (m \notin Range(matches))
        /\ Len(to) - countOf("added") = Len(from) - countOf("removed")

(* A `to` field is Added although a `from` field carries its label: that   *)
(* field was consumed by an earlier `to` field.                            *)
C3_Witness ==
    /\ diffed
    /\ \E j \in DOMAIN matches :
          /\ matches[j] = 0
          /\ \E m \in Range(matches) \ {0} : from[m].field.label = to[j].field.label
    /\ countOf("removed") > 0

(* C4 as stated: the set of diff entries is the same for every insertion   *)
(* order of the fields of `from` and of `to`.                              *)
C4_Original == (pc = "permuted") => Range(diffsP) = Range(diffs)

(* C4 as amended: the set of diff entries is the same for every insertion  *)
(* order of the fields of `from`, when the labels and the ids of `from`    *)
(* are pairwise distinct (the order of `to` is the order of the matching). *)
C4_Theorem ==
    (pc = "permuted" /\ toP = to /\ uniqueLabels(from) /\ uniqueIds(from))
        => Range(diffsP) = Range(diffs)

C4_Witness ==
    /\ pc = "permuted" /\ toP = to /\ fromP # from
    /\ uniqueLabels(from) /\ uniqueIds(from)
    /\ countOf("modified") > 0 /\ countOf("removed") > 0 /\ countOf("added") > 0
    /\ Range(diffsP) = Range(diffs)

(* C5 as stated: when `from` and `to` each have a title field, the title   *)
(* of `from` is not Removed and the title of `to` is not Added.            *)
C5_Original ==
    (diffed /\ titleOf(from) # 0 /\ titleOf(to) # 0) =>
        /\ entriesAt("removed", from[titleOf(from)].key) = {}
        /\ entriesAt("added", to[titleOf(to)].key) = {}

(* C5 as amended: when `from` and `to` each have a title field, the two    *)
(* are matched to each other unless one of them is matched, by id, key or  *)
(* label, to a field of the other schema that is not a title; the title of *)
(* `to` is Added only when the title of `from` was consumed by another     *)
(* field, and the title of `from` is Removed only when the title of `to`   *)
(* matched another field.                                                  *)
C5_Theorem ==
    (diffed /\ titleOf(from) # 0 /\ titleOf(to) # 0) =>
        LET tf == titleOf(from)
            tt == titleOf(to)
        IN  /\ \/ matches[tt] = tf
               \/ \E j \in DOMAIN to : j # tt /\ matches[j] = tf
               \/ matches[tt] \notin {0, tf}
            /\ (entriesAt("added", to[tt].key) # {}) =>
                  \E j \in DOMAIN to : j # tt /\ matches[j] = tf
            /\ (entriesAt("removed", from[tf].key) # {}) => matches[tt] \notin {0, tf}

(* The two titles share neither id, key nor label and are matched by type. *)
C5_Witness ==
    /\ diffed /\ titleOf(from) # 0 /\ titleOf(to) # 0
    /\ LET f == from[titleOf(from)]
           t == to[titleOf(to)]
       IN  /\ matches[titleOf(to)] = titleOf(from)
           /\ f.key # t.key
           /\ f.field.label # t.field.label
           /\ f.field.id # t.field.id
           /\ entriesAt("modified", t.key) # {}

(* C6: applySchemaChanges(S, diffSchema(S, S)) is the empty mapping and    *)
(* does not raise, under every strategy.                                   *)
C6_SelfApplyEmpty ==
    (pc = "applied" /\ from = to) =>
        /\ ~outcome.threw
        /\ DOMAIN outcome.result = {}

(* The entries of diffs of one kind, in diff order.                        *)
removedEntries == SelectSeq(diffs, isRemoved)
modifiedEntries == SelectSeq(diffs, isModified)
addedEntries == SelectSeq(diffs, isAdded)

(* The strategy in force: 'merge' when the argument is omitted.            *)
inForce == IF strategy = Undefined THEN "merge" ELSE strategy

(* C7: under 'strict' one Removed entry is enough to raise; the message    *)
(* lists the keys of all Removed entries in diff order, joined by ", ",    *)
(* and no result is returned; 'merge' and 'overwrite' never raise.         *)
C7_Theorem ==
    (pc = "applied") =>
        /\ (strategy = "strict" /\ Len(removedEntries) > 0) =>
              /\ outcome.threw
              /\ "result" \notin DOMAIN outcome
              /\ Len(outcome.message) = 2 * Len(removedEntries)
              /\ outcome.message[1] = "Unrecognized remote fields: "
              /\ \A i \in DOMAIN removedEntries :
                    outcome.message[2 * i] = removedEntries[i].key
              /\ \A i \in 1..(Len(removedEntries) - 1) :
                    outcome.message[2 * i + 1] = ", "
        /\ (strategy # "strict" \/ Len(removedEntries) = 0) =>
              /\ ~outcome.threw
              /\ "result" \in DOMAIN outcome

C7_Witness ==
    /\ pc = "applied" /\ strategy = "strict"
    /\ Len(removedEntries) = 1
    /\ countOf("added") + countOf("modified") > 0
    /\ outcome.threw

(* C8: under 'overwrite' the label of every Removed entry maps to null;    *)
(* under 'merge', also when no strategy is given, a Removed entry adds     *)
(* nothing and the result holds no null.                                   *)
C8_Theorem ==
    (pc = "applied") =>
        /\ (strategy = "overwrite") =>
              \A i \in DOMAIN removedEntries :
                  /\ removedEntries[i].field.label \in DOMAIN outcome.result
                  /\ outcome.result[removedEntries[i].field.label] = Null
        /\ (strategy \in {"merge", Undefined}) =>
              /\ ~outcome.threw
              /\ \A l \in DOMAIN outcome.result : outcome.result[l] # Null
              /\ DOMAIN outcome.result \subseteq
                    {addedEntries[i].field.label : i \in DOMAIN addedEntries}
                    \cup {modifiedEntries[i].from.label : i \in DOMAIN modifiedEntries}
                    \cup {modifiedEntries[i].to.label : i \in DOMAIN modifiedEntries}
              /\ (countOf("added") + countOf("modified") = 0) => DOMAIN outcome.result = {}

C8_Witness ==
    /\ pc = "applied" /\ strategy = Undefined
    /\ Len(removedEntries) > 0
    /\ ~outcome.threw
    /\ DOMAIN outcome.result # {}
    /\ \A i \in DOMAIN removedEntries :
          removedEntries[i].field.label \notin DOMAIN outcome.result

(* The label a Modified entry is emitted under, the definition emitted,    *)
(* and whether a later entry is written under the same label.              *)
C9_Key(d) == IF d.from.label # d.to.label THEN d.from.label ELSE d.to.label

C9_Emitted(d, def) ==
    /\ def # Null
    /\ def.type = d.to.type
    /\ IF d.from.label # d.to.label
       THEN "name" \in DOMAIN def /\ def.name = d.to.label
       ELSE "name" \notin DOMAIN def
    /\ IF "id" \in DOMAIN d THEN def.id = d.id
       ELSE IF Truthy(d.from.id) THEN def.id = d.from.id
       ELSE def.id = d.to.id

C9_WrittenLater(i) ==
    \/ \E j \in DOMAIN modifiedEntries :
          j > i /\ C9_Key(modifiedEntries[j]) = C9_Key(modifiedEntries[i])
    \/ /\ strategy = "overwrite"
       /\ \E j \in DOMAIN removedEntries :
             removedEntries[j].field.label = C9_Key(modifiedEntries[i])

C10_AddedDefined ==
    (pc = "applied" /\ ~outcome.threw /\ uniqueLabels(from) /\ uniqueLabels(to)) =>
        \A i \in DOMAIN addedEntries :
            /\ addedEntries[i].field.label \in DOMAIN outcome.result
            /\ outcome.result[addedEntries[i].field.label]
                  = [type |-> addedEntries[i].field.type, id |-> addedEntries[i].field.id]

----------------------------------------------------------------------------
(* The value codec: dehydrateValue and hydrateValue.                       *)
(*                                                                         *)
(* A JavaScript value is a record with one field named after its kind, so  *)
(* that values of different kinds compare unequal.  Option keys, option    *)
(* names and ids inside a property value are plain strings.  Fields of     *)
(* type title and rich_text (toRichText parses Markdown) and properties of *)
(* type title, rich_text, files, rollup and unique_id are outside the      *)
(* domain of this model.                                                   *)

MaxOptions == 2
MaxItems == 2

NoValue == [undefined |-> TRUE]
Str(s) == [string |-> s]
Num(n) == [number |-> n]
Bool(b) == [boolean |-> b]
Arr(q) == [array |-> q]

(* !value                                                                  *)
Falsy(v) == v \in {NoValue, Null, Str(""), Num(0), Bool(FALSE)}

SeqsUpTo(S, n) == UNION {[1..m -> S] : m \in 0..n}

(* Strings used as option keys and as option names.                        *)
OptionStrings == {"p", "q"}

(* A value of a record vocabulary: a string or a SelectOptionObject, whose *)
(* label may be omitted.                                                   *)
OptionValue == {Str(n) : n \in OptionStrings} \cup [label : OptionStrings \cup {Undefined}]

OptionEntry == [key : OptionStrings, value : OptionValue]

distinctKeys(s) == \A i, j \in DOMAIN s : s[i].key = s[j].key => i = j

(* Schema.SelectOptions: a list of names, or a record from key to value.   *)
SelectOptions ==
    {Arr(q) : q \in SeqsUpTo(OptionStrings, MaxOptions)}
    \cup {[record |-> r] : r \in {e \in SeqsUpTo(OptionEntry, MaxOptions) : distinctKeys(e)}}

optionCount(options) ==
    IF "array" \in DOMAIN options THEN Len(options.array) ELSE Len(options.record)

RECURSIVE sumOf(_)
sumOf(q) == IF q = <<>> THEN 0 ELSE Head(q) + sumOf(Tail(q))

(* Schema.StatusOptions: the groups in insertion order, each with its own  *)
(* options; the groups of one field declare at most MaxOptions options.    *)
StatusOptions ==
    {[record |-> g] : g \in {h \in SeqsUpTo([options : SelectOptions], MaxOptions) :
                               sumOf([i \in DOMAIN h |-> optionCount(h[i].options)]) <= MaxOptions}}

(* Field types with a branch in dehydrateValue, title and rich_text apart. *)
WritableTypes ==
    {"number", "checkbox", "url", "email", "phone_number", "date",
     "select", "multi_select", "status", "relation", "people"}

(* Field types without a branch in dehydrateValue.                         *)
HydrateOnlyTypes ==
    {"formula", "rollup", "created_time", "created_by", "last_edited_time",
     "last_edited_by", "unique_id", "files"}

(* Schema.Field as the codec reads it: options and groups may be omitted.  *)
CodecField ==
    [type : (WritableTypes \cup HydrateOnlyTypes) \ {"select", "multi_select", "status"}]
    \cup [type : {"select", "multi_select"}]
    \cup [type : {"select", "multi_select"}, options : SelectOptions]
    \cup [type : {"status"}]
    \cup [type : {"status"}, groups : StatusOptions]

(* field.options and field.groups                                          *)
optionsOf(field) == IF "options" \in DOMAIN field THEN field.options ELSE NoValue
groupsOf(field) == IF "groups" \in DOMAIN field THEN field.groups ELSE NoValue

(* A Map<string, string> is the sequence of its set() calls; get() returns *)
(* the value of the last call for the key, undefined when there is none.   *)
mapGet(map, key) ==
    LET i == LastIndex({j \in DOMAIN map : map[j].k = key})
    IN  IF i = 0 THEN Undefined ELSE map[i].v

(* typeof value === 'string' ? value : (value.label ?? key)                *)
optionName_ignoreLabel(key, value) ==
    IF "string" \in DOMAIN value THEN value.string ELSE key

optionName(key, value) ==
    IF "string" \in DOMAIN value THEN value.string
    ELSE IF value.label # Undefined THEN value.label
    ELSE key

buildKeyToNameMap(options) ==
    IF options = NoValue THEN <<>>
    ELSE IF "array" \in DOMAIN options
    THEN [i \in DOMAIN options.array |-> [k |-> options.array[i], v |-> options.array[i]]]
    ELSE [i \in DOMAIN options.record |->
            [k |-> options.record[i].key,
             v |-> optionName(options.record[i].key, options.record[i].value)]]

buildNameToKeyMap(options) ==
    IF options = NoValue THEN <<>>
    ELSE IF "array" \in DOMAIN options
    THEN [i \in DOMAIN options.array |-> [k |-> options.array[i], v |-> options.array[i]]]
    ELSE [i \in DOMAIN options.record |->
            [k |-> optionName(options.record[i].key, options.record[i].value),
             v |-> options.record[i].key]]

RECURSIVE flatten(_)
flatten(ss) == IF ss = <<>> THEN <<>> ELSE Head(ss) \o flatten(Tail(ss))

(* for (const group of Object.values(groups)): the loop body is that of    *)
(* buildKeyToNameMap on group.options.                                     *)
buildStatusKeyToNameMap(groups) ==
    IF groups = NoValue THEN <<>>
    ELSE flatten([i \in DOMAIN groups.record |-> buildKeyToNameMap(groups.record[i].options)])

buildStatusNameToKeyMap(groups) ==
    IF groups = NoValue THEN <<>>
    ELSE flatten([i \in DOMAIN groups.record |-> buildNameToKeyMap(groups.record[i].options)])

(* map.get(value) ?? value                                                 *)
nameOf(map, key) == IF mapGet(map, key) # Undefined THEN mapGet(map, key) ELSE key

(* map.get(name) ?? name                                                   *)
keyOf_passThrough(map, name) == name

keyOf(map, name) == IF mapGet(map, name) # Undefined THEN mapGet(map, name) ELSE name

(* property.type and field.type, undefined on an object that has none.                    *)
typeOf(property) == IF "type" \in DOMAIN property THEN property.type ELSE Undefined

(* toRichText of a value of a record: a string without markup becomes one  *)
(* text item, undefined the empty list, any other value is passed on.      *)
toRichText(value) ==
    CASE value = NoValue -> Arr(<<>>)
      [] "string" \in DOMAIN value ->
            Arr(<<[type |-> "text", plain_text |-> value.string, href |-> Null]>>)
      [] OTHER -> value

dehydrateValue(field, value) ==
    CASE typeOf(field) = "title" -> [type |-> "title", title |-> toRichText(value)]
      [] typeOf(field) = "rich_text" ->
            [type |-> "rich_text", rich_text |-> toRichText(value)]
      [] typeOf(field) = "number" -> [type |-> "number", number |-> value]
      [] typeOf(field) = "select" ->
            IF Falsy(value) THEN [type |-> "select", select |-> Null]
            ELSE [type |-> "select",
                  select |-> [name |-> nameOf(buildKeyToNameMap(optionsOf(field)), value.string)]]
      [] typeOf(field) = "multi_select" ->
            LET map == buildKeyToNameMap(optionsOf(field))
            IN  [type |-> "multi_select",
                 multi_select |-> [i \in DOMAIN value.array |-> [name |-> nameOf(map, value.array[i])]]]
      [] typeOf(field) = "status" ->
            IF Falsy(value) THEN [type |-> "status", status |-> Null]
            ELSE [type |-> "status",
                  status |-> [name |-> nameOf(buildStatusKeyToNameMap(groupsOf(field)), value.string)]]
      [] typeOf(field) = "date" -> [type |-> "date", date |-> value]
      [] typeOf(field) = "checkbox" -> [type |-> "checkbox", checkbox |-> value]
      [] typeOf(field) = "url" -> [type |-> "url", url |-> value]
      [] typeOf(field) = "email" -> [type |-> "email", email |-> value]
      [] typeOf(field) = "phone_number" -> [type |-> "phone_number", phone_number |-> value]
      [] typeOf(field) = "relation" ->
            [type |-> "relation",
             relation |-> [i \in DOMAIN value.array |-> [id |-> value.array[i]]],
             has_more |-> FALSE]
      [] typeOf(field) = "people" ->
            [type |-> "people",
             people |-> [i \in DOMAIN value.array |-> [object |-> "user", id |-> value.array[i]]]]
      [] OTHER -> NoValue

(* property.select?.name and property.status?.name                         *)
selectedName(selection) == IF selection = Null THEN Undefined ELSE selection.name

hydrateValue(property, field) ==
    CASE typeOf(property) = "number" -> property.number
      [] typeOf(property) = "select" ->
            LET name == selectedName(property.select)
            IN  IF name = Undefined \/ name = "" THEN NoValue
                ELSE IF typeOf(field) = "select" /\ optionsOf(field) # NoValue
                THEN Str(keyOf(buildNameToKeyMap(optionsOf(field)), name))
                ELSE Str(name)
      [] typeOf(property) = "multi_select" ->
            LET names == [i \in DOMAIN property.multi_select |-> property.multi_select[i].name]
            IN  IF typeOf(field) = "multi_select" /\ optionsOf(field) # NoValue
                THEN Arr([i \in DOMAIN names |->
                            keyOf(buildNameToKeyMap(optionsOf(field)), names[i])])
                ELSE Arr(names)
      [] typeOf(property) = "status" ->
            LET name == selectedName(property.status)
            IN  IF name = Undefined \/ name = "" THEN NoValue
                ELSE IF typeOf(field) = "status" /\ groupsOf(field) # NoValue
                THEN Str(keyOf(buildStatusNameToKeyMap(groupsOf(field)), name))
                ELSE Str(name)
      [] typeOf(property) = "date" -> property.date
      [] typeOf(property) = "checkbox" -> property.checkbox
      [] typeOf(property) = "url" -> property.url
      [] typeOf(property) = "email" -> property.email
      [] typeOf(property) = "phone_number" -> property.phone_number
      [] typeOf(property) = "created_time" -> property.created_time
      [] typeOf(property) = "last_edited_time" -> property.last_edited_time
      [] typeOf(property) = "relation" ->
            Arr([i \in DOMAIN property.relation |-> property.relation[i].id])
      [] typeOf(property) = "people" ->
            Arr([i \in DOMAIN property.people |-> property.people[i].id])
      [] typeOf(property) = "formula" ->
            CASE property.formula.type = "string" -> property.formula.string
              [] property.formula.type = "number" -> property.formula.number
              [] property.formula.type = "boolean" -> property.formula.boolean
              [] property.formula.type = "date" -> property.formula.date
              [] OTHER -> NoValue
      [] typeOf(property) = "created_by" -> Str(property.created_by.id)
      [] typeOf(property) = "last_edited_by" -> Str(property.last_edited_by.id)
      [] OTHER -> NoValue

----------------------------------------------------------------------------
(* CodecSpec: a field and a local value are given; dehydrateValue encodes  *)
(* the value and hydrateValue decodes the property again, or hydrateValue  *)
(* decodes a property read from Notion.                                    *)

(* A string that no vocabulary of the model declares.                      *)
UndeclaredString == "r"

ValueStrings == OptionStrings \cup {UndeclaredString}

RelationIds == {"i1", "i2"}

(* The local values of a field, by type; undefined is the omitted value.   *)
LocalValues(field) ==
    CASE field.type = "number" -> {NoValue, Null, Num(0), Num(1)}
      [] field.type = "checkbox" -> {Bool(TRUE), Bool(FALSE)}
      [] field.type \in {"url", "email", "phone_number"} -> {NoValue, Null, Str("s")}
      [] field.type = "date" -> {NoValue, Null, [start |-> "d1", end |-> Null]}
      [] field.type \in {"select", "status"} ->
            {NoValue, Null, Str("")} \cup {Str(s) : s \in ValueStrings}
      [] field.type = "multi_select" -> {Arr(q) : q \in SeqsUpTo(ValueStrings, MaxItems)}
      [] field.type \in {"relation", "people"} -> {Arr(q) : q \in SeqsUpTo(RelationIds, MaxItems)}
      [] OTHER -> {Null, Str("s"), Num(1), Bool(TRUE), Arr(<<>>)}

(* The selections Notion can return for an option field: option names are *)
(* non-empty strings.                                                      *)
RemoteValues(field) ==
    CASE field.type = "select" ->
            {[type |-> "select", select |-> Null]}
            \cup {[type |-> "select", select |-> [name |-> n]] : n \in ValueStrings}
      [] field.type = "status" ->
            {[type |-> "status", status |-> Null]}
            \cup {[type |-> "status", status |-> [name |-> n]] : n \in ValueStrings}
      [] field.type = "multi_select" ->
            {[type |-> "multi_select", multi_select |-> [i \in DOMAIN q |-> [name |-> q[i]]]] :
                q \in SeqsUpTo(ValueStrings, MaxItems)}
      [] OTHER -> {}

CodecInit ==
    /\ SchemaIdle /\ RecordIdle /\ ExprIdle /\ InferIdle /\ FilterIdle /\ SourceIdle
    /\ MatchIdle
    /\ vField \in CodecField
    /\ vValue \in LocalValues(vField)
    /\ vProperty = NoValue
    /\ vHydrated = NoValue
    /\ vpc = "start"

(* const property = dehydrateValue(field, value)                           *)
DehydrateValue ==
    /\ vpc = "start"
    /\ vProperty' = dehydrateValue(vField, vValue)
    /\ vpc' = "dehydrated"
    /\ UNCHANGED <<vField, vValue, vHydrated>>
    /\ UNCHANGED <<schemaVars, recordVars, exprVars, inferVars, filterVars, sourceVars,
                 matchVars>>

(* hydrateValue(property, field) on the property just written             *)
HydrateValue ==
    /\ vpc = "dehydrated"
    /\ vProperty # NoValue
    /\ vHydrated' = hydrateValue(vProperty, vField)
    /\ vpc' = "hydrated"
    /\ UNCHANGED <<vField, vValue, vProperty>>
    /\ UNCHANGED <<schemaVars, recordVars, exprVars, inferVars, filterVars, sourceVars,
                 matchVars>>

(* hydrateValue(property, field) on a property read from Notion            *)
HydrateRemote ==
    /\ vpc = "start"
    /\ \E property \in RemoteValues(vField) :
          /\ vProperty' = property
          /\ vHydrated' = hydrateValue(property, vField)
    /\ vpc' = "remote"
    /\ UNCHANGED <<vField, vValue>>
    /\ UNCHANGED <<schemaVars, recordVars, exprVars, inferVars, filterVars, sourceVars,
                 matchVars>>

CodecNext ==
    \/ DehydrateValue
    \/ HydrateValue
    \/ HydrateRemote

CodecSpec == CodecInit /\ [][CodecNext]_vars

----------------------------------------------------------------------------
(* Claims on the value codec.                                              *)

(* The display name a vocabulary entry declares for its key: the string,   *)
(* or the label, or the key itself when the label is omitted.              *)
displayName(e) ==
    IF "string" \in DOMAIN e.value THEN e.value.string
    ELSE IF e.value.label = Undefined THEN e.key
    ELSE e.value.label

(* The <<key, name>> pairs that a vocabulary declares.                     *)
pairsOf(options) ==
    IF options = NoValue THEN {}
    ELSE IF "array" \in DOMAIN options
    THEN {<<options.array[i], options.array[i]>> : i \in DOMAIN options.array}
    ELSE {<<options.record[i].key, displayName(options.record[i])>> : i \in DOMAIN options.record}

(* The pairs of a field: those of its options, or of all its groups.       *)
declared(field) ==
    IF field.type = "status"
    THEN IF groupsOf(field) = NoValue THEN {}
         ELSE UNION {pairsOf(groupsOf(field).record[i].options) : i \in DOMAIN groupsOf(field).record}
    ELSE pairsOf(optionsOf(field))

namesOfKey(field, key) == {p[2] : p \in {d \in declared(field) : d[1] = key}}
keysOfName(field, name) == {p[1] : p \in {d \in declared(field) : d[2] = name}}

(* The names a local string may be written as.                             *)
writtenAs(field, s) == IF namesOfKey(field, s) = {} THEN {s} ELSE namesOfKey(field, s)

(* No other key is declared under a name that s may be written as.         *)
unambiguous(field, s) == \A n \in writtenAs(field, s) : keysOfName(field, n) \subseteq {s}

C11_Covered ==
    CASE vField.type \in {"select", "status"} ->
            IF Falsy(vValue) THEN vValue = NoValue ELSE unambiguous(vField, vValue.string)
      [] vField.type = "multi_select" ->
            \A i \in DOMAIN vValue.array : unambiguous(vField, vValue.array[i])
      [] OTHER -> TRUE

C13_Written(name, s) == name \in writtenAs(vField, s)

C13_Read(key, name) ==
    IF keysOfName(vField, name) = {} THEN key = name ELSE key \in keysOfName(vField, name)

C13_Dehydrated ==
    CASE vField.type = "select" ->
            IF Falsy(vValue) THEN vProperty = [type |-> "select", select |-> Null]
            ELSE /\ vProperty.type = "select"
                 /\ vProperty.select # Null
                 /\ C13_Written(vProperty.select.name, vValue.string)
      [] vField.type = "status" ->
            IF Falsy(vValue) THEN vProperty = [type |-> "status", status |-> Null]
            ELSE /\ vProperty.type = "status"
                 /\ vProperty.status # Null
                 /\ C13_Written(vProperty.status.name, vValue.string)
      [] vField.type = "multi_select" ->
            /\ vProperty.type = "multi_select"
            /\ Len(vProperty.multi_select) = Len(vValue.array)
            /\ \A i \in DOMAIN vValue.array :
                  C13_Written(vProperty.multi_select[i].name, vValue.array[i])
      [] OTHER -> TRUE

C13_Hydrated ==
    CASE vField.type = "select" /\ vProperty.select # Null ->
            vHydrated \in {Str(k) : k \in ValueStrings}
            /\ C13_Read(vHydrated.string, vProperty.select.name)
      [] vField.type = "status" /\ vProperty.status # Null ->
            vHydrated \in {Str(k) : k \in ValueStrings}
            /\ C13_Read(vHydrated.string, vProperty.status.name)
      [] vField.type = "multi_select" ->
            /\ vHydrated \in {Arr(q) : q \in SeqsUpTo(ValueStrings, Len(vProperty.multi_select))}
            /\ Len(vHydrated.array) = Len(vProperty.multi_select)
            /\ \A i \in DOMAIN vHydrated.array :
                  C13_Read(vHydrated.array[i], vProperty.multi_select[i].name)
      [] OTHER -> TRUE

C13_Theorem ==
    /\ (vpc = "dehydrated") => C13_Dehydrated
    /\ (vpc = "remote") => C13_Hydrated

C13_Witness ==
    /\ vpc = "remote"
    /\ vField.type = "status"
    /\ Cardinality(declared(vField)) = 2
    /\ vProperty = [type |-> "status", status |-> [name |-> "q"]]
    /\ vHydrated = Str("p")

----------------------------------------------------------------------------
(* The record codec: dehydrate and hydrate.                                *)
(*                                                                         *)
(* A JavaScript object is the sequence of its own entries in insertion     *)
(* order.  Reading a name that the object does not own falls back on       *)
(* Object.prototype, which every object literal inherits from.             *)

MaxEntries == 2

(* A name that Object.prototype defines.                                   *)
ObjectPrototype == {"constructor"}

(* The member found there: a function, truthy, without type or label.      *)
InheritedMember == [inherited |-> TRUE]

(* schema[key]                                                             *)
getField(schema, key) ==
    LET i == schemaIndex(schema, key)
    IN  IF i # 0 THEN schema[i].field
        ELSE IF key \in ObjectPrototype THEN InheritedMember
        ELSE NoValue

(* object[key] on a record of values                                       *)
getProperty(object, key) ==
    LET i == LastIndex({j \in DOMAIN object : object[j].key = key})
    IN  IF i # 0 THEN object[i].value
        ELSE IF key \in ObjectPrototype THEN InheritedMember
        ELSE NoValue

(* field.label                                                             *)
labelOf(field) == IF "label" \in DOMAIN field THEN field.label ELSE Undefined

(* object[key] = value: an own key keeps its place, a new one goes last.   *)
setProperty(object, key, value) ==
    IF \E j \in DOMAIN object : object[j].key = key
    THEN [j \in DOMAIN object |->
            IF object[j].key = key THEN [key |-> key, value |-> value] ELSE object[j]]
    ELSE Append(object, [key |-> key, value |-> value])

(* The body of the loop of dehydrate, for one entry of data.               *)
dehydrateStep_keepUnsupported(schema, result, entry) ==
    LET field == getField(schema, entry.key)
    IN  IF field = NoValue \/ entry.value = NoValue THEN result
        ELSE setProperty(result, labelOf(field), dehydrateValue(field, entry.value))

dehydrateStep_keyedByKey(schema, result, entry) ==
    LET field == getField(schema, entry.key)
    IN  IF field = NoValue \/ entry.value = NoValue THEN result
        ELSE IF dehydrateValue(field, entry.value) = NoValue THEN result
        ELSE setProperty(result, entry.key, dehydrateValue(field, entry.value))

dehydrateStep(schema, result, entry) ==
    LET field == getField(schema, entry.key)
    IN  IF field = NoValue \/ entry.value = NoValue THEN result
        ELSE IF dehydrateValue(field, entry.value) = NoValue THEN result
        ELSE setProperty(result, labelOf(field), dehydrateValue(field, entry.value))

RECURSIVE dehydrateFrom(_, _, _, _)
dehydrateFrom(schema, data, i, result) ==
    IF i > Len(data) THEN result
    ELSE dehydrateFrom(schema, data, i + 1, dehydrateStep(schema, result, data[i]))

dehydrate(schema, data) == dehydrateFrom(schema, data, 1, <<>>)

(* The body of the loop of hydrate, for one entry of the schema.           *)
hydrateStep_nullPlaceholder(properties, result, entry) ==
    LET property == getProperty(properties, entry.field.label)
    IN  IF property = NoValue THEN setProperty(result, entry.key, Null)
        ELSE IF hydrateValue(property, entry.field) = NoValue THEN result
        ELSE setProperty(result, entry.key, hydrateValue(property, entry.field))

hydrateStep(properties, result, entry) ==
    LET property == getProperty(properties, entry.field.label)
    IN  IF property = NoValue THEN result
        ELSE IF hydrateValue(property, entry.field) = NoValue THEN result
        ELSE setProperty(result, entry.key, hydrateValue(property, entry.field))

RECURSIVE hydrateFrom(_, _, _, _)
hydrateFrom(schema, properties, i, result) ==
    IF i > Len(schema) THEN result
    ELSE hydrateFrom(schema, properties, i + 1, hydrateStep(properties, result, schema[i]))

hydrate(schema, properties) == hydrateFrom(schema, properties, 1, <<>>)

----------------------------------------------------------------------------
(* RecordSpec: a schema is given; dehydrate encodes a local record, or     *)
(* hydrate decodes the properties of a page.                               *)

(* Field types of the record model: two writable ones and the types that   *)
(* dehydrateValue does not write.                                          *)
RecordTypes == {"number", "select"} \cup HydrateOnlyTypes

RecordField == [label : Labels, type : RecordTypes]

RecordSchema ==
    {r \in SeqsUpTo([key : Keys, field : RecordField], Cardinality(Keys)) : distinctKeys(r)}

(* Keys of a local record: those of the schema, one that no schema         *)
(* declares, and one that only Object.prototype defines.                   *)
DataKeys == Keys \cup {"c"} \cup ObjectPrototype

DataValues == {NoValue, Null, Str("p")}

LocalRecord ==
    {r \in SeqsUpTo([key : DataKeys, value : DataValues], MaxEntries) : distinctKeys(r)}

(* Property values of a page, as Notion returns them.                      *)
PropertyValues ==
    {[type |-> "number", number |-> n] : n \in {Null, Num(1)}}
    \cup {[type |-> "select", select |-> Null],
          [type |-> "select", select |-> [name |-> "p"]],
          [type |-> "formula", formula |-> [type |-> "number", number |-> Num(1)]],
          [type |-> "formula", formula |-> [type |-> "other"]]}

RemoteProperties ==
    {r \in SeqsUpTo([key : Labels, value : PropertyValues], Cardinality(Labels)) : distinctKeys(r)}

RecordInit ==
    /\ SchemaIdle /\ CodecIdle /\ ExprIdle /\ InferIdle /\ FilterIdle /\ SourceIdle
    /\ MatchIdle
    /\ rSchema \in RecordSchema
    /\ rData = <<>>
    /\ rProperties = <<>>
    /\ rResult = <<>>
    /\ rpc = "start"

(* const properties = dehydrate(schema, data)                              *)
Dehydrate ==
    /\ rpc = "start"
    /\ \E data \in LocalRecord :
          /\ rData' = data
          /\ rResult' = dehydrate(rSchema, data)
    /\ rpc' = "dehydrated"
    /\ UNCHANGED <<rSchema, rProperties>>
    /\ UNCHANGED <<schemaVars, codecVars, exprVars, inferVars, filterVars, sourceVars,
                 matchVars>>

(* const data = hydrate(schema, page.properties)                           *)
Hydrate ==
    /\ rpc = "start"
    /\ \E properties \in RemoteProperties :
          /\ rProperties' = properties
          /\ rResult' = hydrate(rSchema, properties)
    /\ rpc' = "hydrated"
    /\ UNCHANGED <<rSchema, rData>>
    /\ UNCHANGED <<schemaVars, codecVars, exprVars, inferVars, filterVars, sourceVars,
                 matchVars>>

RecordNext ==
    \/ Dehydrate
    \/ Hydrate

RecordSpec == RecordInit /\ [][RecordNext]_vars

----------------------------------------------------------------------------
(* Claims on the record codec.                                             *)

ownKeys(object) == {object[i].key : i \in DOMAIN object}

(* The schema declares the key.                                            *)
declares(schema, key) == \E i \in DOMAIN schema : schema[i].key = key

fieldAt(schema, key) == schema[CHOOSE i \in DOMAIN schema : schema[i].key = key].field

(* The entries of the record that dehydrate has to write: the key is       *)
(* declared, the value is not undefined, the field type is writable.       *)
written ==
    {i \in DOMAIN rData :
        /\ declares(rSchema, rData[i].key)
        /\ rData[i].value # NoValue
        /\ fieldAt(rSchema, rData[i].key).type \in WritableTypes}

(* The entries of the record whose field is of a hydrate-only type.        *)
unsupported ==
    {i \in DOMAIN rData :
        /\ declares(rSchema, rData[i].key)
        /\ fieldAt(rSchema, rData[i].key).type \in HydrateOnlyTypes}

(* C12 as stated: for a field of a hydrate-only type dehydrateValue        *)
(* returns undefined, and the result of dehydrate has no entry under the   *)
(* label of such a field.                                                  *)
C12_Original ==
    (rpc = "dehydrated") =>
        \A i \in unsupported :
            /\ dehydrateValue(fieldAt(rSchema, rData[i].key), rData[i].value) = NoValue
            /\ fieldAt(rSchema, rData[i].key).label \notin ownKeys(rResult)

(* C12, amended: for a field of a hydrate-only type dehydrateValue returns *)
(* undefined, and every entry of the result of dehydrate is the property   *)
(* value of a record key whose field is writable: the label of a           *)
(* hydrate-only field is present only when a writable field shares it.     *)
C12_Theorem ==
    (rpc = "dehydrated") =>
        /\ \A i \in unsupported :
              dehydrateValue(fieldAt(rSchema, rData[i].key), rData[i].value) = NoValue
        /\ \A j \in DOMAIN rResult :
              \E i \in written :
                 /\ fieldAt(rSchema, rData[i].key).label = rResult[j].key
                 /\ dehydrateValue(fieldAt(rSchema, rData[i].key), rData[i].value) = rResult[j].value

C12_Witness ==
    /\ rpc = "dehydrated"
    /\ unsupported # {}
    /\ written # {}
    /\ \A i \in unsupported : rData[i].value # NoValue
    /\ \A i \in unsupported : fieldAt(rSchema, rData[i].key).label \notin ownKeys(rResult)
    /\ Len(rResult) = 1

(* C14: the keys of hydrate(schema, remoteProperties) are the schema keys  *)
(* k for which a remote property exists under schema[k].label and          *)
(* hydrateValue returns a value other than undefined, in schema order;     *)
(* the other keys are absent, and a hydrated null is kept as null.         *)
hasRemote(i) == rSchema[i].field.label \in ownKeys(rProperties)

remoteOf(i) ==
    rProperties[CHOOSE j \in DOMAIN rProperties : rProperties[j].key = rSchema[i].field.label].value

kept ==
    {i \in DOMAIN rSchema :
        hasRemote(i) /\ hydrateValue(remoteOf(i), rSchema[i].field) # NoValue}

C14_Theorem ==
    (rpc = "hydrated") =>
        /\ Len(rResult) = Cardinality(kept)
        /\ \A i \in kept :
              LET j == Cardinality({h \in kept : h <= i})
              IN  /\ rResult[j].key = rSchema[i].key
                  /\ rResult[j].value = hydrateValue(remoteOf(i), rSchema[i].field)
        /\ \A i \in DOMAIN rSchema :
              (hasRemote(i) /\ remoteOf(i) = [type |-> "number", number |-> Null])
                 => \E j \in DOMAIN rResult :
                       rResult[j].key = rSchema[i].key /\ rResult[j].value = Null

C14_Witness ==
    /\ rpc = "hydrated"
    /\ Len(rSchema) = 2
    /\ Cardinality(kept) = 1
    /\ \E i \in DOMAIN rSchema : ~hasRemote(i)
    /\ \E j \in DOMAIN rResult : rResult[j].value = Null

(* C15: dehydrate(schema, record) has exactly one entry under the label of *)
(* the field of each record key that is declared in the schema, whose      *)
(* value is not undefined and whose field type is writable, and no entry   *)
(* for keys absent from the schema or for undefined values.                *)
C15_Theorem ==
    (rpc = "dehydrated") =>
        /\ ownKeys(rResult) = {fieldAt(rSchema, rData[i].key).label : i \in written}
        /\ \A i, j \in DOMAIN rResult : rResult[i].key = rResult[j].key => i = j

C15_Witness ==
    /\ rpc = "dehydrated"
    /\ Len(rData) = 2
    /\ Cardinality(written) = 1
    /\ \E i \in DOMAIN rData : ~declares(rSchema, rData[i].key) /\ rData[i].value # NoValue
    /\ Len(rResult) = 1

----------------------------------------------------------------------------
(* The formula translator: restoreExpression and buildExpression.          *)
(*                                                                         *)
(* An expression is the sequence of the chunks of its text.  The chunks    *)
(* are cut where the two patterns can tell them apart: a colon, a brace,   *)
(* a quote and a parenthesis are chunks of their own, and no other chunk   *)
(* contains one of them or a part of "{{notion", "block_property" and      *)
(* "prop(".  A property id is the sequence of its characters.              *)

MaxParts == 2

Quote == "\""

(* encodeURIComponent, character by character: "/" is escaped, a letter is *)
(* kept.                                                                   *)
encodeURIComponent_identity(id) == id

encodeURIComponent(id) == [i \in DOMAIN id |-> IF id[i] = "/" THEN "%2F" ELSE id[i]]

(* The index of the first chunk t of e at or after i, 0 when there is none *)
firstAt(e, i, t) ==
    LET found == {j \in i..Len(e) : e[j] = t}
    IN  IF found = {} THEN 0 ELSE CHOOSE j \in found : \A h \in found : j <= h

(* BLOCK_PROPERTY_PATTERN = /{{notion:block_property:([^:]+):([^:]+):([^}]+)}}/g *)
(* matched at chunk i: each group runs up to the first chunk that ends it. *)
NoMatch == [end |-> 0]

blockPropertyMatch(e, i) ==
    IF i + 3 > Len(e) \/ SubSeq(e, i, i + 3) # <<"{{notion", ":", "block_property", ":">>
    THEN NoMatch
    ELSE LET c1 == firstAt(e, i + 4, ":")
         IN  IF c1 = 0 \/ c1 = i + 4 THEN NoMatch
             ELSE LET c2 == firstAt(e, c1 + 1, ":")
                  IN  IF c2 = 0 \/ c2 = c1 + 1 THEN NoMatch
                      ELSE LET b == firstAt(e, c2 + 1, "}")
                           IN  IF b = 0 \/ b = c2 + 1 \/ b + 1 > Len(e) THEN NoMatch
                               ELSE IF e[b + 1] # "}" THEN NoMatch
                               ELSE [end |-> b + 1,
                                     encodedPropertyId |-> SubSeq(e, i + 4, c1 - 1),
                                     referenceDataSourceId |-> SubSeq(e, c1 + 1, c2 - 1)]

(* `prop("${key}")`                                                        *)
propCall(key) == <<"prop(", Quote, key, Quote, ")">>

(* for (const [key, field] of Object.entries(schema))                      *)
(*   if (field.id) encodedIdToKey.set(encodeURIComponent(field.id), key)   *)
hasId(entry) == "id" \in DOMAIN entry.field /\ entry.field.id # <<>>

encodedIdToKey(schema) ==
    LET withId == SelectSeq(schema, hasId)
    IN  [i \in DOMAIN withId |-> [k |-> encodeURIComponent(withId[i].field.id), v |-> withId[i].key]]

(* The replacer of restoreExpression.                                      *)
restoreReference(e, i, m, dataSourceId, map) ==
    IF m.referenceDataSourceId # <<dataSourceId>> THEN SubSeq(e, i, m.end)
    ELSE IF mapGet(map, m.encodedPropertyId) = Undefined THEN SubSeq(e, i, m.end)
    ELSE propCall(mapGet(map, m.encodedPropertyId))

(* expression.replaceAll(BLOCK_PROPERTY_PATTERN, ...) from chunk i on      *)
RECURSIVE restoreFrom(_, _, _, _)
restoreFrom(e, i, dataSourceId, map) ==
    IF i > Len(e) THEN <<>>
    ELSE LET m == blockPropertyMatch(e, i)
         IN  IF m.end = 0 THEN <<e[i]>> \o restoreFrom(e, i + 1, dataSourceId, map)
             ELSE restoreReference(e, i, m, dataSourceId, map)
                  \o restoreFrom(e, m.end + 1, dataSourceId, map)

restoreExpression(expression, dataSourceId, schema) ==
    restoreFrom(expression, 1, dataSourceId, encodedIdToKey(schema))

(* PROP_PATTERN = /prop\("([^"]+)"\)/g matched at chunk i                  *)
propMatch(e, i) ==
    IF i + 1 > Len(e) \/ SubSeq(e, i, i + 1) # <<"prop(", Quote>> THEN NoMatch
    ELSE LET q == firstAt(e, i + 2, Quote)
         IN  IF q = 0 \/ q = i + 2 \/ q + 1 > Len(e) THEN NoMatch
             ELSE IF e[q + 1] # ")" THEN NoMatch
             ELSE [end |-> q + 1, key |-> SubSeq(e, i + 2, q - 1)]

(* The text of a captured group: one chunk is a name; the chunks of the    *)
(* model never spell a schema key together.                                *)
textOf(group) == IF Len(group) = 1 THEN group[1] ELSE "*"

(* The replacer of buildExpression.                                        *)
buildReference(e, i, m, schema) ==
    IF getField(schema, textOf(m.key)) = NoValue THEN SubSeq(e, i, m.end)
    ELSE propCall(labelOf(getField(schema, textOf(m.key))))

(* expression.replaceAll(PROP_PATTERN, ...) from chunk i on                *)
RECURSIVE buildFrom(_, _, _)
buildFrom(e, i, schema) ==
    IF i > Len(e) THEN <<>>
    ELSE LET m == propMatch(e, i)
         IN  IF m.end = 0 THEN <<e[i]>> \o buildFrom(e, i + 1, schema)
             ELSE buildReference(e, i, m, schema) \o buildFrom(e, m.end + 1, schema)

buildExpression(expression, schema) == buildFrom(expression, 1, schema)

----------------------------------------------------------------------------
(* ExprSpec: a schema is given; an expression written part by part is      *)
(* passed to restoreExpression or to buildExpression.                      *)

IdCharacters == {"x", "/"}

(* Field ids of the model: the empty id and the ids of one character.      *)
ExprIds == SeqsUpTo(IdCharacters, 1)

ExprField == [label : Labels] \cup [label : Labels, id : ExprIds]

ExprSchema ==
    {r \in SeqsUpTo([key : Keys, field : ExprField], Cardinality(Keys)) : distinctKeys(r)}

DataSourceIds == {"T1", "T2"}

(* {{notion:block_property:<encoded id>:<data source id>:<block id>}}      *)
blockProperty(encodedId, dataSourceId) ==
    <<"{{notion", ":", "block_property", ":">> \o encodedId
    \o <<":", dataSourceId, ":", "B", "}", "}">>

(* The encoded ids that an expression refers to: "x", "/" escaped, "/" not *)
(* escaped, and one that no field carries.                                 *)
ReferencedIds == {<<"x">>, <<"%2F">>, <<"/">>, <<"y">>}

(* The parts of an expression handed to restoreExpression: references,     *)
(* a reference that lacks its last brace, a prop call, and other text.     *)
RestoreParts ==
    [ref : [id : ReferencedIds, ds : {"T1", "T2"}]]
    \cup {[text |-> <<"+">>],
          [text |-> propCall("a")],
          [text |-> SubSeq(blockProperty(<<"x">>, "T1"), 1, 10)]}

(* The keys that an expression names: declared or not, or inherited.       *)
ReferencedKeys == Keys \cup {"c"} \cup ObjectPrototype

(* The parts of an expression handed to buildExpression: prop calls, one   *)
(* with a key of two chunks, one with an empty key, one that lacks its     *)
(* parenthesis, a block property reference, and other text.                *)
BuildParts ==
    [prop : ReferencedKeys]
    \cup {[text |-> <<"+">>],
          [text |-> <<"prop(", Quote, "a", "b", Quote, ")">>],
          [text |-> <<"prop(", Quote, Quote, ")">>],
          [text |-> <<"prop(", Quote, "a", Quote>>],
          [text |-> blockProperty(<<"x">>, "T1")]}

partText(part) ==
    IF "ref" \in DOMAIN part THEN blockProperty(part.ref.id, part.ref.ds)
    ELSE IF "prop" \in DOMAIN part THEN propCall(part.prop)
    ELSE part.text

textOfParts(parts) == flatten([i \in DOMAIN parts |-> partText(parts[i])])

ExprInit ==
    /\ SchemaIdle /\ CodecIdle /\ RecordIdle /\ InferIdle /\ FilterIdle /\ SourceIdle
    /\ MatchIdle
    /\ xSchema \in ExprSchema
    /\ xParts = <<>>
    /\ xExpression = <<>>
    /\ xDataSourceId = ""
    /\ xResult = <<>>
    /\ xpc = "start"

(* restoreExpression(expression, dataSourceId, schema)                     *)
RestoreExpression ==
    /\ xpc = "start"
    /\ \E parts \in SeqsUpTo(RestoreParts, MaxParts), id \in {"T1", "T3"} :
          /\ xParts' = parts
          /\ xExpression' = textOfParts(parts)
          /\ xDataSourceId' = id
          /\ xResult' = restoreExpression(textOfParts(parts), id, xSchema)
    /\ xpc' = "restored"
    /\ UNCHANGED xSchema
    /\ UNCHANGED <<schemaVars, codecVars, recordVars, inferVars, filterVars, sourceVars,
                 matchVars>>

(* buildExpression(expression, schema)                                     *)
BuildExpression ==
    /\ xpc = "start"
    /\ \E parts \in SeqsUpTo(BuildParts, MaxParts) :
          /\ xParts' = parts
          /\ xExpression' = textOfParts(parts)
          /\ xResult' = buildExpression(textOfParts(parts), xSchema)
    /\ xpc' = "built"
    /\ UNCHANGED <<xSchema, xDataSourceId>>
    /\ UNCHANGED <<schemaVars, codecVars, recordVars, inferVars, filterVars, sourceVars,
                 matchVars>>

ExprNext ==
    \/ RestoreExpression
    \/ BuildExpression

ExprSpec == ExprInit /\ [][ExprNext]_vars

----------------------------------------------------------------------------
(* Claims on the formula translator.                                       *)

(* The percent-encoding of an id, stated apart from the model of           *)
(* encodeURIComponent.                                                     *)
percentEncoding(id) == [i \in DOMAIN id |-> CASE id[i] = "/" -> "%2F" [] OTHER -> id[i]]

(* The keys of the fields whose id has the given percent-encoding.         *)
keysEncodedAs(encodedId) ==
    {xSchema[i].key : i \in {j \in DOMAIN xSchema :
        "id" \in DOMAIN xSchema[j].field /\ percentEncoding(xSchema[j].field.id) = encodedId}}

(* The texts one part may be restored to.                                  *)
restoredAs(part) ==
    IF "ref" \in DOMAIN part /\ part.ref.ds = xDataSourceId /\ keysEncodedAs(part.ref.id) # {}
    THEN {propCall(k) : k \in keysEncodedAs(part.ref.id)}
    ELSE {partText(part)}

RECURSIVE restoredTexts(_)
restoredTexts(parts) ==
    IF parts = <<>> THEN {<<>>}
    ELSE {h \o t : h \in restoredAs(Head(parts)), t \in restoredTexts(Tail(parts))}

(* C16: restoreExpression replaces every reference whose data source id is *)
(* the given one and whose encoded property id is the percent-encoding of  *)
(* the id of a schema field by prop("key") of such a field, and leaves     *)
(* references to other data sources, references to unknown ids and all     *)
(* other text unchanged; with an id that no reference carries the result   *)
(* is the input.                                                           *)
C16_Theorem ==
    (xpc = "restored") =>
        /\ xResult \in restoredTexts(xParts)
        /\ (\A i \in DOMAIN xParts :
               "ref" \in DOMAIN xParts[i] => xParts[i].ref.ds # xDataSourceId)
              => xResult = xExpression

C16_Witness ==
    /\ xpc = "restored"
    /\ xDataSourceId = "T1"
    /\ xParts = <<[ref |-> [id |-> <<"%2F">>, ds |-> "T1"]], [ref |-> [id |-> <<"/">>, ds |-> "T1"]]>>
    /\ xResult = propCall("b") \o blockProperty(<<"/">>, "T1")

(* The text one part has to be built to.                                   *)
builtAs(part) ==
    IF "prop" \in DOMAIN part /\ declares(xSchema, part.prop)
    THEN propCall(fieldAt(xSchema, part.prop).label)
    ELSE partText(part)

(* C17: buildExpression replaces every prop("k") whose k is a key of the   *)
(* schema by prop("<label of schema[k]>") and leaves prop calls with other *)
(* keys and all other text unchanged; an expression without a prop call,   *)
(* the empty one included, is returned as it is.                           *)
C17_Built ==
    (xpc = "built") => xResult = flatten([i \in DOMAIN xParts |-> builtAs(xParts[i])])

----------------------------------------------------------------------------
(* inferSchema                                                             *)

MaxProperties == 3

(* Names of remote properties, with the keys that toCamelCase (imported    *)
(* from @unshared/string) folds them to: the first word in lower case,     *)
(* special characters stripped.                                            *)
PropertyNames == {"Price", "Price ($)", "price", "Name"}

toCamelCase(name) ==
    CASE name \in {"Price", "Price ($)", "price"} -> "price"
      [] name = "Name" -> "name"

(* decodeURIComponent, chunk by chunk: the inverse of encodeURIComponent.  *)
decodeURIComponent(id) == [i \in DOMAIN id |-> IF id[i] = "%2F" THEN "/" ELSE id[i]]

(* Property ids as Notion sends them.                                      *)
EncodedIds == {<<"x">>, <<"%2F">>}

(* Property.Definition, for a type without additional data, for number and *)
(* for formula.                                                            *)
PropertyDefinition ==
    [name : PropertyNames, id : EncodedIds, type : {"rich_text"}]
    \cup [name : PropertyNames, id : EncodedIds, type : {"number"}, format : {"dollar"}]
    \cup [name : PropertyNames, id : EncodedIds, type : {"formula"},
          expression : {blockProperty(<<"x">>, "T1")}]

(* The properties of a data source in the order of Object.entries.         *)
distinctNames(s) == \A i, j \in DOMAIN s : s[i].name = s[j].name => i = j

Properties == {r \in SeqsUpTo(PropertyDefinition, MaxProperties) : distinctNames(r)}

toSchemaField(definition) ==
    LET id == decodeURIComponent(definition.id)
        label == definition.name
    IN  CASE definition.type \in {"title", "rich_text", "date", "people", "files", "checkbox",
                                  "url", "email", "phone_number", "created_time", "created_by",
                                  "last_edited_time", "last_edited_by"} ->
                [label |-> label, id |-> id, type |-> definition.type]
          [] definition.type = "number" ->
                [label |-> label, id |-> id, type |-> "number", format |-> definition.format]
          [] definition.type = "formula" ->
                [label |-> label, id |-> id, type |-> "formula",
                 expression |-> definition.expression]
          [] OTHER -> NoValue

(* result[key] = field on a Schema.Definition                              *)
setField_keepFirst(schema, key, field) ==
    IF \E j \in DOMAIN schema : schema[j].key = key THEN schema
    ELSE Append(schema, [key |-> key, field |-> field])

setField(schema, key, field) ==
    IF \E j \in DOMAIN schema : schema[j].key = key
    THEN [j \in DOMAIN schema |->
            IF schema[j].key = key THEN [key |-> key, field |-> field] ELSE schema[j]]
    ELSE Append(schema, [key |-> key, field |-> field])

(* for (const [, definition] of Object.entries(properties)), from entry i  *)
RECURSIVE inferFrom(_, _, _)
inferFrom(properties, i, result) ==
    IF i > Len(properties) THEN result
    ELSE LET field == toSchemaField(properties[i])
         IN  inferFrom(properties, i + 1,
                       IF field = NoValue THEN result
                       ELSE setField(result, toCamelCase(properties[i].name), field))

(* The post-processing of the formula fields; restoreExpression reads only *)
(* the keys and the ids of the schema, which the loop does not change.     *)
restoreFormulas(result, dataSourceId) ==
    IF dataSourceId = Undefined THEN result
    ELSE [i \in DOMAIN result |->
            IF result[i].field.type = "formula" /\ result[i].field.expression # <<>>
            THEN [key |-> result[i].key,
                  field |-> [result[i].field EXCEPT
                               !.expression = restoreExpression(@, dataSourceId, result)]]
            ELSE result[i]]

inferSchema(properties, dataSourceId) ==
    restoreFormulas(inferFrom(properties, 1, <<>>), dataSourceId)

----------------------------------------------------------------------------
(* InferSpec: the properties of a data source are given; inferSchema is    *)
(* called with or without the id of the data source.                       *)

InferInit ==
    /\ SchemaIdle /\ CodecIdle /\ RecordIdle /\ ExprIdle /\ FilterIdle /\ SourceIdle
    /\ MatchIdle
    /\ iProperties \in Properties
    /\ iResult = <<>>
    /\ ipc = "start"

(* const schema = inferSchema(properties, dataSourceId)                    *)
InferSchema ==
    /\ ipc = "start"
    /\ \E dataSourceId \in {Undefined, "T1"} :
          iResult' = inferSchema(iProperties, dataSourceId)
    /\ ipc' = "inferred"
    /\ UNCHANGED iProperties
    /\ UNCHANGED <<schemaVars, codecVars, recordVars, exprVars, filterVars, sourceVars,
                 matchVars>>

InferNext == InferSchema

InferSpec == InferInit /\ [][InferNext]_vars

----------------------------------------------------------------------------
(* Claims on inferSchema.                                                  *)

(* The properties that fold to the given key.                              *)
foldingTo(key) == {i \in DOMAIN iProperties : toCamelCase(iProperties[i].name) = key}

(* The id of a property with its percent-escapes resolved.                 *)
percentDecoding(id) == [i \in DOMAIN id |-> CASE id[i] = "%2F" -> "/" [] OTHER -> id[i]]

(* C18: inferSchema does not fail on key collisions: the schema has        *)
(* exactly one field under the key of every property, and it carries the   *)
(* label, the decoded id and the type of the last property in iteration    *)
(* order that folds to that key; the schema has no other key.              *)
C18_Theorem ==
    (ipc = "inferred") =>
        /\ \A i \in DOMAIN iProperties :
              LET key == toCamelCase(iProperties[i].name)
                  last == iProperties[Max(foldingTo(key))]
                  at == {j \in DOMAIN iResult : iResult[j].key = key}
              IN  /\ Cardinality(at) = 1
                  /\ \A j \in at :
                        /\ iResult[j].field.label = last.name
                        /\ iResult[j].field.id = percentDecoding(last.id)
                        /\ iResult[j].field.type = last.type
        /\ \A j \in DOMAIN iResult : foldingTo(iResult[j].key) # {}

C18_Witness ==
    /\ ipc = "inferred"
    /\ Len(iProperties) = 3
    /\ Len(iResult) = 2
    /\ iResult[1].key = "price"
    /\ iResult[1].field.label = "Price ($)"
    /\ iResult[1].field.id = <<"/">>
    /\ iProperties[1].name = "Price"
    /\ iProperties[1].type # iResult[1].field.type

----------------------------------------------------------------------------
(* buildUpsertFilter                                                       *)
(*                                                                         *)
(* An error message is the sequence of its fixed parts and of the names    *)
(* set into it.                                                            *)

MaxUniqueKeys == 2

(* const UNSUPPORTED_TYPES = [...]                                         *)
UNSUPPORTED_TYPES ==
    {"multi_select", "date", "people", "files", "formula", "rollup",
     "created_time", "created_by", "last_edited_time", "last_edited_by"}

(* The result of Number(value) that is not a number.                       *)
NaN == [nan |-> TRUE]

(* String(value) for a number                                              *)
numberText(n) == CASE n = 0 -> "0" [] n = 1 -> "1"

(* String(value) for every value, the missing ones included                *)
toFilterString_stringify(value) ==
    CASE value = Null -> "null"
      [] value = NoValue -> "undefined"
      [] "string" \in DOMAIN value -> value.string
      [] "number" \in DOMAIN value -> numberText(value.number)
      [] "boolean" \in DOMAIN value -> IF value.boolean THEN "true" ELSE "false"
      [] OTHER -> ""
toFilterString(value) ==
    CASE value = Null \/ value = NoValue -> ""
      [] "string" \in DOMAIN value -> value.string
      [] "number" \in DOMAIN value -> numberText(value.number)
      [] "boolean" \in DOMAIN value -> IF value.boolean THEN "true" ELSE "false"
      [] OTHER -> ""

(* typeof value === 'number' ? value : Number(value)                       *)
toNumber(value) ==
    CASE "number" \in DOMAIN value -> value
      [] value = Null -> Num(0)
      [] "boolean" \in DOMAIN value -> IF value.boolean THEN Num(1) ELSE Num(0)
      [] "string" \in DOMAIN value -> IF value.string = "" THEN Num(0) ELSE NaN
      [] OTHER -> NaN

returned(filter) == [threw |-> FALSE, filter |-> filter]

thrown(message) == [threw |-> TRUE, message |-> message]

(* The filter of one unique key, from the type of its field on.            *)
typeFilter(propertyName, type, value, key) ==
    CASE type = "title" ->
            returned([property |-> propertyName, title |-> [equals |-> toFilterString(value)]])
      [] type \in {"rich_text", "email", "phone_number", "url"} ->
            returned([property |-> propertyName, rich_text |-> [equals |-> toFilterString(value)]])
      [] type = "number" ->
            returned([property |-> propertyName, number |-> [equals |-> toNumber(value)]])
      [] type = "checkbox" ->
            returned([property |-> propertyName, checkbox |-> [equals |-> ~Falsy(value)]])
      [] type = "select" ->
            returned([property |-> propertyName, select |-> [equals |-> toFilterString(value)]])
      [] type = "status" ->
            returned([property |-> propertyName, status |-> [equals |-> toFilterString(value)]])
      [] type = "unique_id" ->
            returned([property |-> propertyName, number |-> [equals |-> toNumber(value)]])
      [] type = "relation" ->
            returned([property |-> propertyName, relation |-> [contains |-> toFilterString(value)]])
      [] type \in UNSUPPORTED_TYPES ->
            thrown(<<"Property type \"", type, "\" is not supported for upsert matching. ",
                     "Use a property with type: title, rich_text, number, checkbox, select, status, email, url, phone_number, or unique_id.">>)
      [] OTHER ->
            thrown(<<"Unknown property type \"", type, "\" for property \"", key, "\".">>)

(* The callback of uniqueProperties.map                                    *)
propertyFilter_noSchemaCheck(schema, data, key) ==
    LET field == getField(schema, key)
    IN  IF field = NoValue
        THEN returned([property |-> key, rich_text |-> [equals |-> toFilterString(getProperty(data, key))]])
        ELSE typeFilter(labelOf(field), typeOf(field), getProperty(data, key), key)

propertyFilter(schema, data, key) ==
    LET field == getField(schema, key)
    IN  IF field = NoValue
        THEN thrown(<<"Property \"", key, "\" not found in schema.">>)
        ELSE typeFilter(labelOf(field), typeOf(field), getProperty(data, key), key)

(* filters.length === 1 ? filters[0] : { and: filters }                    *)
compound_alwaysAnd(filters) == [and |-> filters]

compound(filters) == IF Len(filters) = 1 THEN filters[1] ELSE [and |-> filters]

(* map stops at the first callback that throws.                            *)
buildUpsertFilter(schema, uniqueProperties, data) ==
    LET results == [i \in DOMAIN uniqueProperties |-> propertyFilter(schema, data, uniqueProperties[i])]
        failed == {i \in DOMAIN results : results[i].threw}
    IN  IF failed # {} THEN results[CHOOSE i \in failed : \A j \in failed : i <= j]
        ELSE returned(compound([i \in DOMAIN results |-> results[i].filter]))

----------------------------------------------------------------------------
(* FilterSpec: a schema with the fields a and b is given; buildUpsertFilter *)
(* is called with a list of unique keys and a record.                      *)

(* Schema.Field['type']                                                    *)
FieldTypes == WritableTypes \cup HydrateOnlyTypes \cup {"title", "rich_text"}

FilterSchema ==
    {<<[key |-> "a", field |-> [label |-> "L1", type |-> t1]],
       [key |-> "b", field |-> [label |-> "L2", type |-> t2]]>> : t1, t2 \in FieldTypes}

(* Unique keys: declared ones, one that the schema does not declare, and   *)
(* one that only Object.prototype defines.                                 *)
UniqueKeys == SeqsUpTo(Keys \cup {"c"} \cup ObjectPrototype, MaxUniqueKeys)

(* Records: any value under a, a string or a number under b.               *)
FilterData ==
    {<<[key |-> "a", value |-> va], [key |-> "b", value |-> vb]>> :
        va \in {NoValue, Null, Str("v"), Num(1), Bool(TRUE)}, vb \in {Str(""), Num(0)}}

FilterInit ==
    /\ SchemaIdle /\ CodecIdle /\ RecordIdle /\ ExprIdle /\ InferIdle /\ SourceIdle
    /\ MatchIdle
    /\ uSchema \in FilterSchema
    /\ uKeys = <<>>
    /\ uData = <<>>
    /\ uOutcome = [threw |-> FALSE]
    /\ upc = "start"

(* const filter = buildUpsertFilter(schema, uniqueProperties, data)        *)
BuildUpsertFilter ==
    /\ upc = "start"
    /\ \E uniqueProperties \in UniqueKeys, data \in FilterData :
          /\ uKeys' = uniqueProperties
          /\ uData' = data
          /\ uOutcome' = buildUpsertFilter(uSchema, uniqueProperties, data)
    /\ upc' = "built"
    /\ UNCHANGED uSchema
    /\ UNCHANGED <<schemaVars, codecVars, recordVars, exprVars, inferVars, sourceVars,
                 matchVars>>

FilterNext == BuildUpsertFilter

FilterSpec == FilterInit /\ [][FilterNext]_vars

----------------------------------------------------------------------------
(* Claims on buildUpsertFilter.                                            *)

(* The filter of the i-th unique key.                                      *)
filterOfKey(i) == propertyFilter(uSchema, uData, uKeys[i]).filter

undeclaredAt(i) == ~declares(uSchema, uKeys[i])

unsupportedAt(i) ==
    /\ declares(uSchema, uKeys[i])
    /\ fieldAt(uSchema, uKeys[i]).type \in
          {"multi_select", "date", "people", "files", "formula", "rollup",
           "created_time", "created_by", "last_edited_time", "last_edited_by"}

failingKeys == {i \in DOMAIN uKeys : undeclaredAt(i) \/ unsupportedAt(i)}

(* C20: buildUpsertFilter raises an error and returns no filter exactly    *)
(* when a unique key is not declared in the schema, the message naming the *)
(* key, or the type of its field is one of the ten unsupported types, the  *)
(* message naming the type; for every other declared type it does not      *)
(* raise, whatever the value.                                              *)
C20_Theorem ==
    (upc = "built") =>
        /\ uOutcome.threw <=> failingKeys # {}
        /\ uOutcome.threw =>
              LET i == CHOOSE h \in failingKeys : \A j \in failingKeys : h <= j
              IN  /\ "filter" \notin DOMAIN uOutcome
                  /\ undeclaredAt(i) => uKeys[i] \in Range(uOutcome.message)
                  /\ unsupportedAt(i) => fieldAt(uSchema, uKeys[i]).type \in Range(uOutcome.message)

C20_Witness ==
    /\ upc = "built"
    /\ uKeys = <<"a", "c">>
    /\ uOutcome = thrown(<<"Property \"", "c", "\" not found in schema.">>)

(* The condition that a filter carries for a field of the type.            *)
conditionOf(type) ==
    CASE type = "title" -> "title"
      [] type \in {"rich_text", "email", "phone_number", "url"} -> "rich_text"
      [] type \in {"number", "unique_id"} -> "number"
      [] type = "checkbox" -> "checkbox"
      [] type = "select" -> "select"
      [] type = "status" -> "status"
      [] type = "relation" -> "relation"
      [] OTHER -> "none"

(* The filter that the result holds for the i-th unique key.               *)
emitted(i) == IF Len(uKeys) = 1 THEN uOutcome.filter ELSE uOutcome.filter.and[i]

(* The value of the record under the key, undefined when it has none.      *)
valueAt(data, key) ==
    IF \E j \in DOMAIN data : data[j].key = key
    THEN data[CHOOSE j \in DOMAIN data : data[j].key = key].value
    ELSE NoValue

missing(value) == value \in {NoValue, Null}

(* C21: in the result of buildUpsertFilter the filter of every unique key  *)
(* is on the label of its field and carries the one condition that the     *)
(* type of the field selects (title; rich_text for rich_text, email,       *)
(* phone_number, url; number for number and unique_id; checkbox; select;   *)
(* status; relation), with "equals", or "contains" for a relation; the     *)
(* checkbox operand is a boolean, a number operand is the number itself, a *)
(* text operand is the string itself, and a value that the record lacks    *)
(* gives the empty string in every text condition.                         *)
C21_Theorem ==
    (upc = "built" /\ ~uOutcome.threw) =>
        \A i \in DOMAIN uKeys :
            LET field == fieldAt(uSchema, uKeys[i])
                value == valueAt(uData, uKeys[i])
                condition == conditionOf(field.type)
                filter == emitted(i)
            IN  /\ declares(uSchema, uKeys[i])
                /\ condition # "none"
                /\ DOMAIN filter = {"property", condition}
                /\ filter.property = field.label
                /\ DOMAIN filter[condition] =
                      {IF condition = "relation" THEN "contains" ELSE "equals"}
                /\ condition = "checkbox" => filter.checkbox.equals \in BOOLEAN
                /\ (condition = "number" /\ "number" \in DOMAIN value) =>
                      filter.number.equals = value
                /\ condition \in {"title", "rich_text", "select", "status"} =>
                      /\ missing(value) => filter[condition].equals = ""
                      /\ "string" \in DOMAIN value => filter[condition].equals = value.string
                /\ condition = "relation" =>
                      /\ missing(value) => filter.relation.contains = ""
                      /\ "string" \in DOMAIN value => filter.relation.contains = value.string

(* Both keys are given, a is a url field without a value in the record, b  *)
(* a unique_id field with the number 0.                                    *)
C21_Witness ==
    /\ upc = "built" /\ ~uOutcome.threw
    /\ uKeys = <<"a", "b">>
    /\ fieldAt(uSchema, "a").type = "url"
    /\ fieldAt(uSchema, "b").type = "unique_id"
    /\ valueAt(uData, "a") = NoValue
    /\ valueAt(uData, "b") = Num(0)
    /\ uOutcome.filter.and[1] = [property |-> "L1", rich_text |-> [equals |-> ""]]
    /\ uOutcome.filter.and[2] = [property |-> "L2", number |-> [equals |-> Num(0)]]

----------------------------------------------------------------------------
(* DataSource (entities/DataSource)                                        *)
(*                                                                         *)
(* The instances of the class live in a heap: a reference is an index of   *)
(* `instances`, an instance is its `object` (the raw data source) and, when  *)
(* it is set, its `schema`.  `remote` is what the store behind the adapter  *)
(* holds for the data source, adapterCalls the calls the adapter received. *)

MaxCalls == 2

(* constructor(adapter, object, schema?)                                   *)
newDataSource(object, schema) == [object |-> object, schema |-> schema]

newDataSourceWithoutSchema(object) == [object |-> object]

(* if (!this.schema)                                                       *)
hasSchema(instance) == "schema" \in DOMAIN instance

(* this.schema = schema; return this                                       *)
withSchema(heap, this, schema) ==
    [heap |-> [heap EXCEPT ![this] = newDataSource(heap[this].object, schema)],
     value |-> this]

(* entityToParent(this) for a DataSource                                   *)
entityToParent(instance) == [type |-> "data_source_id", data_source_id |-> instance.object.id]

(* upsert up to its first await: it raises, or queries the adapter for one *)
(* page with the filter.                                                   *)
upsertSteps(instance, uniqueBy, data) ==
    IF ~hasSchema(instance)
    THEN [step |-> "throw", message |-> <<"Cannot upsert records without a schema.">>]
    ELSE LET filter == buildUpsertFilter(instance.schema, uniqueBy, data)
         IN  IF filter.threw THEN [step |-> "throw", message |-> filter.message]
             ELSE [step |-> "queryDataSource",
                   query |-> [filter |-> filter.filter, page_size |-> 1]]

(* insert up to its await: it raises, or asks the adapter for a new page.  *)
insertSteps(instance, data) ==
    IF ~hasSchema(instance)
    THEN [step |-> "throw", message |-> <<"Cannot create records without a schema.">>]
    ELSE [step |-> "createPage",
          options |-> [parent |-> entityToParent(instance),
                       properties |-> dehydrate(instance.schema, data)]]

(* upsert that creates a page although the query found one.                *)
upsertFound_create(instance, existing, data) ==
    [step |-> "createPage",
     options |-> [parent |-> entityToParent(instance),
                  properties |-> dehydrate(instance.schema, data)]]

(* upsert after the query: the page found is updated, or insert is called. *)
upsertFound(instance, existing, data) ==
    [step |-> "updatePage", id |-> existing,
     options |-> [properties |-> dehydrate(instance.schema, data)]]

----------------------------------------------------------------------------

(* SourceSpec: a data source is fetched without a schema; its methods are  *)
(* called one after the other, each on the instance the one before         *)
(* returned.                                                               *)

(* Names of remote properties and local keys: "price" is the key that      *)
(* toCamelCase gives the name "Price", "name" the one of "Name".           *)
SourceNames == {"Price", "Name"}

SourceKeys == {"price", "name"}

(* Schema.Field of a local schema: the id is optional.                     *)
SourceField == [label : SourceNames, type : Types, id : {Undefined, "x"}]

SourceSchemas ==
    {s \in SeqsUpTo([key : SourceKeys, field : SourceField], Cardinality(SourceKeys)) :
        IsSchema(s)}

(* The properties of the data source as the store sends them: names and    *)
(* ids are distinct, at most one property is the title.                    *)
IsProperties(r) ==
    /\ distinctNames(r)
    /\ \A i, j \in DOMAIN r : r[i].id = r[j].id => i = j
    /\ \A i, j \in DOMAIN r : (r[i].type = "title" /\ r[j].type = "title") => i = j

SourceProperties ==
    {r \in SeqsUpTo([name : SourceNames, id : EncodedIds, type : Types],
                    Cardinality(SourceNames)) : IsProperties(r)}

(* DataSourceObject                                                        *)
dataSourceObject(properties) == [id |-> "T1", properties |-> properties]

SourceInit ==
    /\ SchemaIdle /\ CodecIdle /\ RecordIdle /\ ExprIdle /\ InferIdle /\ FilterIdle
    /\ MatchIdle
    /\ remote \in SourceProperties
    /\ instances = <<newDataSourceWithoutSchema(dataSourceObject(remote))>>
    /\ adapterCalls = <<>>
    /\ dThis = 1
    /\ dCall = [method |-> "none"]
    /\ dLocals = <<>>
    /\ dOutcome = [threw |-> FALSE, value |-> 1]
    /\ dRound = 0
    /\ dpc = "ready"

(* The instance the next method is called on: the one the last call        *)
(* returned, the first one after a failure.                                *)
nextThis == IF ~dOutcome.threw /\ "value" \in DOMAIN dOutcome THEN dOutcome.value ELSE 1

(* const typed = dataSource.withSchema(schema)                             *)
WithSchema ==
    /\ dpc = "ready" /\ dRound = 0
    /\ \E schema \in SourceSchemas :
          LET call == withSchema(instances, nextThis, schema)
          IN  /\ dCall' = [method |-> "withSchema", schema |-> schema]
              /\ instances' = call.heap
              /\ dOutcome' = [threw |-> FALSE, value |-> call.value]
    /\ dThis' = nextThis
    /\ dRound' = dRound + 1
    /\ UNCHANGED <<remote, adapterCalls, dLocals, dpc>>
    /\ UNCHANGED <<schemaVars, codecVars, recordVars, exprVars, inferVars, filterVars,
                 matchVars>>

(* An error raised by the adapter (a rejected request).                    *)
AdapterError == [threw |-> TRUE, message |-> <<"adapter request failed">>]

(* The store applying the properties of an update: null deletes the        *)
(* property of that name, a definition updates it (its name field renames  *)
(* it) or creates it under a fresh id when the store has none of that name. *)
storeKept(properties, update) ==
    SelectSeq(properties,
              LAMBDA p : ~(p.name \in DOMAIN update /\ update[p.name] = Null))

storeName(update, label) ==
    IF "name" \in DOMAIN update[label] THEN update[label].name ELSE label

storeUpdated(property, update) ==
    IF property.name \in DOMAIN update
    THEN [name |-> storeName(update, property.name), id |-> property.id,
          type |-> update[property.name].type]
    ELSE property

storeCreated(properties, update) ==
    {label \in DOMAIN update :
        update[label] # Null /\ \A i \in DOMAIN properties : properties[i].name # label}

(* Every state the store can be in after the update: the new properties    *)
(* come last, in any order, with ids the store does not use yet.  A result *)
(* with two properties of one name or two titles is refused.               *)
storeResults(properties, update) ==
    LET keptOnes == storeKept(properties, update)
        old == [i \in DOMAIN keptOnes |-> storeUpdated(keptOnes[i], update)]
        labels == storeCreated(properties, update)
        orders == {q \in [1..Cardinality(labels) -> labels] : Range(q) = labels}
        fresh == {e \in [labels -> EncodedIds] :
                     /\ \A l1, l2 \in labels : e[l1] = e[l2] => l1 = l2
                     /\ \A l \in labels : \A i \in DOMAIN old : old[i].id # e[l]}
    IN  {r \in {old \o [i \in DOMAIN q |->
                          [name |-> storeName(update, q[i]), id |-> e[q[i]],
                           type |-> update[q[i]].type]] : q \in orders, e \in fresh} :
            IsProperties(r)}

(* this.inferSchema(): inferSchema(this.object.properties, this.object.id). *)
(* inferSchema holds an id as the list of its chunks, diffSchema compares  *)
(* ids as texts: the id of every field is handed over as the text of its   *)
(* one chunk.                                                              *)
inferSchemaOf(instance) ==
    LET schema == inferSchema(instance.object.properties, instance.object.id)
    IN  [i \in DOMAIN schema |->
            [key |-> schema[i].key,
             field |-> [label |-> schema[i].field.label, type |-> schema[i].field.type,
                        id |-> schema[i].field.id[1]]]]

(* ensureSchema up to its first await: it returns a new instance, raises,  *)
(* or calls adapter.updateDataSource with the properties.                  *)
ensureSchemaSteps_updateAlways(instance, schema, arg) ==
    LET remoteSchema == inferSchemaOf(instance)
        diff == diffSchema(remoteSchema, schema)
        properties == applySchemaChanges(schema, diff, defaultStrategy(arg))
    IN  IF Len(diff) = 0 THEN [step |-> "return"]
        ELSE IF properties.threw THEN [step |-> "throw", message |-> properties.message]
        ELSE [step |-> "updateDataSource", properties |-> properties.result]

ensureSchemaSteps(instance, schema, arg) ==
    LET remoteSchema == inferSchemaOf(instance)
        diff == diffSchema(remoteSchema, schema)
        properties == applySchemaChanges(schema, diff, defaultStrategy(arg))
    IN  IF Len(diff) = 0 THEN [step |-> "return"]
        ELSE IF properties.threw THEN [step |-> "throw", message |-> properties.message]
        ELSE IF DOMAIN properties.result = {} THEN [step |-> "return"]
        ELSE [step |-> "updateDataSource", properties |-> properties.result]

(* The arguments of ensureSchema: any on the first call, the same again on *)
(* the instance that the call before returned.                             *)
EnsureArguments ==
    IF dCall.method = "ensureSchema"
    THEN {<<dCall.schema, dCall.strategy>>}
    ELSE SourceSchemas \X (ConflictStrategy \cup {Undefined})

(* const synced = await dataSource.ensureSchema(schema, strategy), up to   *)
(* the return, the error or the request to the adapter.                    *)
EnsureSchema ==
    /\ dpc = "ready" /\ dRound < MaxCalls
    /\ dCall.method \in {"none", "ensureSchema"}
    /\ ~dOutcome.threw
    /\ \E arguments \in EnsureArguments :
          LET schema == arguments[1]
              steps == ensureSchemaSteps(instances[nextThis], schema, arguments[2])
          IN  /\ dCall' = [method |-> "ensureSchema", schema |-> schema,
                           strategy |-> arguments[2]]
              /\ CASE steps.step = "return" ->
                        /\ instances' = Append(instances,
                                               newDataSource(instances[nextThis].object, schema))
                        /\ dOutcome' = [threw |-> FALSE, value |-> Len(instances) + 1]
                        /\ UNCHANGED <<adapterCalls, dLocals, dpc>>
                   [] steps.step = "throw" ->
                        /\ dOutcome' = [threw |-> TRUE, message |-> steps.message]
                        /\ UNCHANGED <<instances, adapterCalls, dLocals, dpc>>
                   [] steps.step = "updateDataSource" ->
                        /\ adapterCalls' = Append(adapterCalls,
                              [method |-> "updateDataSource", round |-> dRound + 1,
                               id |-> instances[nextThis].object.id,
                               properties |-> steps.properties])
                        /\ dLocals' = [schema |-> schema]
                        /\ dpc' = "updateDataSource"
                        /\ UNCHANGED <<instances, dOutcome>>
    /\ dThis' = nextThis
    /\ dRound' = dRound + 1
    /\ UNCHANGED remote
    /\ UNCHANGED <<schemaVars, codecVars, recordVars, exprVars, inferVars, filterVars,
                 matchVars>>

(* The request settles: the store has applied the update and ensureSchema  *)
(* returns a new instance on the object it answers, or the request failed  *)
(* and the error goes to the caller.                                       *)
UpdateDataSourceSettles ==
    /\ dpc = "updateDataSource"
    /\ LET request == adapterCalls[Len(adapterCalls)]
       IN  \/ \E properties \in storeResults(remote, request.properties) :
                 /\ remote' = properties
                 /\ instances' = Append(instances,
                                        newDataSource(dataSourceObject(properties),
                                                      dLocals.schema))
                 /\ dOutcome' = [threw |-> FALSE, value |-> Len(instances) + 1]
           \/ /\ dOutcome' = AdapterError
              /\ UNCHANGED <<remote, instances>>
    /\ dLocals' = <<>>
    /\ dpc' = "ready"
    /\ UNCHANGED <<adapterCalls, dThis, dCall, dRound>>
    /\ UNCHANGED <<schemaVars, codecVars, recordVars, exprVars, inferVars, filterVars,
                 matchVars>>

(* The unique keys and the records of the calls.                           *)
SourceUniqueBy == {<<"price">>, <<"name">>, <<"price", "name">>}

SourceData ==
    {<<[key |-> "price", value |-> Str("v")], [key |-> "name", value |-> value]>> :
        value \in {NoValue, Str("w")}}

(* The pages of the store: the one a query finds, the one it creates.      *)
ExistingPage == "P1"

CreatedPage == "P2"

(* The step of a method that raises or requests: the error ends the call,  *)
(* the request is logged and awaited.                                      *)
Proceed(steps, round) ==
    CASE steps.step = "throw" ->
            /\ dOutcome' = [threw |-> TRUE, message |-> steps.message]
            /\ dpc' = "ready"
            /\ UNCHANGED adapterCalls
      [] steps.step = "queryDataSource" ->
            /\ adapterCalls' = Append(adapterCalls,
                  [method |-> "queryDataSource", round |-> round, query |-> steps.query])
            /\ dpc' = "queryDataSource"
            /\ UNCHANGED dOutcome
      [] steps.step = "updatePage" ->
            /\ adapterCalls' = Append(adapterCalls,
                  [method |-> "updatePage", round |-> round, id |-> steps.id,
                   options |-> steps.options])
            /\ dpc' = "updatePage"
            /\ UNCHANGED dOutcome
      [] steps.step = "createPage" ->
            /\ adapterCalls' = Append(adapterCalls,
                  [method |-> "createPage", round |-> round, options |-> steps.options])
            /\ dpc' = "createPage"
            /\ UNCHANGED dOutcome

(* const page = await dataSource.upsert(uniqueBy, data), up to the error   *)
(* or the query.                                                           *)
Upsert ==
    /\ dpc = "ready" /\ dRound < MaxCalls
    /\ dCall.method \in {"none", "withSchema"}
    /\ \E uniqueBy \in SourceUniqueBy, data \in SourceData :
          /\ dCall' = [method |-> "upsert", uniqueBy |-> uniqueBy, data |-> data]
          /\ Proceed(upsertSteps(instances[nextThis], uniqueBy, data), dRound + 1)
    /\ dThis' = nextThis
    /\ dRound' = dRound + 1
    /\ UNCHANGED <<instances, remote, dLocals>>
    /\ UNCHANGED <<schemaVars, codecVars, recordVars, exprVars, inferVars, filterVars,
                 matchVars>>

(* The query settles with a page, with none, or fails.                     *)
QueryDataSourceSettles ==
    /\ dpc = "queryDataSource"
    /\ \/ /\ dLocals' = [existing |-> [id |-> ExistingPage]]
          /\ Proceed(upsertFound(instances[dThis], ExistingPage, dCall.data), dRound)
       \/ /\ dLocals' = [existing |-> NoValue]
          /\ Proceed(insertSteps(instances[dThis], dCall.data), dRound)
       \/ /\ dOutcome' = AdapterError
          /\ dpc' = "ready"
          /\ UNCHANGED <<adapterCalls, dLocals>>
    /\ UNCHANGED <<instances, remote, dThis, dCall, dRound>>
    /\ UNCHANGED <<schemaVars, codecVars, recordVars, exprVars, inferVars, filterVars,
                 matchVars>>

(* const page = await dataSource.insert(data), up to the error or the      *)
(* request.                                                                *)
Insert ==
    /\ dpc = "ready" /\ dRound < MaxCalls
    /\ dCall.method \in {"none", "withSchema"}
    /\ \E data \in SourceData :
          /\ dCall' = [method |-> "insert", data |-> data]
          /\ Proceed(insertSteps(instances[nextThis], data), dRound + 1)
    /\ dThis' = nextThis
    /\ dRound' = dRound + 1
    /\ UNCHANGED <<instances, remote, dLocals>>
    /\ UNCHANGED <<schemaVars, codecVars, recordVars, exprVars, inferVars, filterVars,
                 matchVars>>

(* updatePage or createPage settles: the call returns the page, or fails.  *)
PageSettles ==
    /\ dpc \in {"updatePage", "createPage"}
    /\ \/ dOutcome' = [threw |-> FALSE,
                       page |-> IF dpc = "updatePage" THEN ExistingPage ELSE CreatedPage]
       \/ dOutcome' = AdapterError
    /\ dpc' = "ready"
    /\ UNCHANGED <<instances, remote, adapterCalls, dThis, dCall, dLocals, dRound>>
    /\ UNCHANGED <<schemaVars, codecVars, recordVars, exprVars, inferVars, filterVars,
                 matchVars>>

SourceNext ==
    \/ WithSchema
    \/ EnsureSchema
    \/ UpdateDataSourceSettles
    \/ Upsert
    \/ QueryDataSourceSettles
    \/ Insert
    \/ PageSettles

SourceSpec == SourceInit /\ [][SourceNext]_vars

----------------------------------------------------------------------------
(* Claims on DataSource.                                                   *)

(* C22: withSchema(schema) returns an instance other than the one it was   *)
(* called on, carrying the schema, and the instance it was called on       *)
(* keeps the schema it had (here: none).                                   *)
C22_NewInstance ==
    (dCall.method = "withSchema" /\ dpc = "ready") =>
        /\ dOutcome.value # dThis
        /\ hasSchema(instances[dOutcome.value])
        /\ instances[dOutcome.value].schema = dCall.schema
        /\ ~hasSchema(instances[dThis])

----------------------------------------------------------------------------
(* Claims on the matching rules of diffSchema.                             *)

(* The keys of the `from` fields consumed before the j-th `to` field.      *)
consumedBefore(j) == {from[matches[i]].key : i \in {h \in 1..(j - 1) : matches[h] # 0}}

unconsumedAt(j) == {m \in DOMAIN from : from[m].key \notin consumedBefore(j)}

(* The unconsumed `from` fields that each rule offers the j-th `to` field. *)
sameId(j) ==
    {m \in unconsumedAt(j) : Truthy(to[j].field.id) /\ from[m].field.id = to[j].field.id}

sameKey(j) == {m \in unconsumedAt(j) : from[m].key = to[j].key}

sameLabel(j) == {m \in unconsumedAt(j) : from[m].field.label = to[j].field.label}

sameSingleton(j) ==
    {m \in unconsumedAt(j) :
        to[j].field.type \in SINGLETON_TYPES /\ from[m].field.type = to[j].field.type}

(* C23: every `to` field is matched by the first rule that offers an       *)
(* unconsumed `from` field: one with the same id, even when another lies   *)
(* under its key; else the one under its key, even when another shares the *)
(* label and whatever the ids; else one with the same label; else the one  *)
(* of the same singleton type; else none.                                  *)
C23_Priority ==
    diffed =>
        \A j \in DOMAIN to :
            IF sameId(j) # {} THEN matches[j] \in sameId(j)
            ELSE IF sameKey(j) # {} THEN matches[j] \in sameKey(j)
            ELSE IF sameLabel(j) # {} THEN matches[j] \in sameLabel(j)
            ELSE IF sameSingleton(j) # {} THEN matches[j] \in sameSingleton(j)
            ELSE matches[j] = 0

(* C24: a `to` field that no unconsumed `from` field matches by id or by   *)
(* key, while at least one unconsumed `from` field carries its label, is   *)
(* matched to such a field and is not Added, also when several fields of   *)
(* `from` share the label.                                                 *)
C24_LabelMatch ==
    diffed =>
        \A j \in DOMAIN to :
            (sameId(j) = {} /\ sameKey(j) = {} /\ sameLabel(j) # {}) =>
                /\ matches[j] \in sameLabel(j)
                /\ entriesAt("added", to[j].key) = {}

(* The dimensions in which the j-th `to` field differs from the `from`     *)
(* field at m, in the order key, label, type.                              *)
differing(m, j) ==
    SelectSeq(<<"key", "label", "type">>,
              LAMBDA c : CASE c = "key" -> from[m].key # to[j].key
                           [] c = "label" -> from[m].field.label # to[j].field.label
                           [] c = "type" -> from[m].field.type # to[j].field.type)

(* The position in `to` of the key of a diff entry.                        *)
toIndex(k) == CHOOSE j \in DOMAIN to : to[j].key = k

(* C25: every Modified entry has a non-empty `changes`, which lists, in    *)
(* the order key, label, type, exactly the dimensions in which the matched *)
(* fields differ; `from` and `to` are the matched fields; `fromKey` is     *)
(* present exactly when 'key' is listed and is then the key of the matched *)
(* `from` field; a matched `to` field without difference has no entry.     *)
C25_Theorem ==
    diffed =>
        /\ \A i \in DOMAIN diffs :
              isModified(diffs[i]) =>
                  /\ \E j \in DOMAIN to : to[j].key = diffs[i].key
                  /\ LET j == toIndex(diffs[i].key)
                         m == matches[j]
                     IN  /\ m # 0
                         /\ diffs[i].changes # <<>>
                         /\ diffs[i].changes = differing(m, j)
                         /\ diffs[i].from = from[m].field
                         /\ diffs[i].to = to[j].field
                         /\ ("fromKey" \in DOMAIN diffs[i]) <=> ("key" \in Range(diffs[i].changes))
                         /\ ("fromKey" \in DOMAIN diffs[i]) => diffs[i].fromKey = from[m].key
        /\ \A j \in DOMAIN to :
              (matches[j] # 0 /\ differing(matches[j], j) = <<>>) =>
                  \A i \in DOMAIN diffs : diffs[i].key = to[j].key => ~isModified(diffs[i])

(* One field matched under its key with another label and type, the entry  *)
(* having no fromKey, and one field matched without difference and without *)
(* entry.                                                                  *)
C25_Witness ==
    /\ diffed
    /\ countOf("modified") = 1
    /\ \E i \in DOMAIN diffs :
          /\ isModified(diffs[i])
          /\ diffs[i].changes = <<"label", "type">>
          /\ "fromKey" \notin DOMAIN diffs[i]
    /\ \E j \in DOMAIN to :
          /\ matches[j] # 0 /\ differing(matches[j], j) = <<>>
          /\ \A i \in DOMAIN diffs : diffs[i].key # to[j].key

(* C26: a Modified entry carries the id of the matched `from` field when   *)
(* that field has one, whatever rule matched it, whether or not the key    *)
(* changed and whether or not the `to` field has an id; it carries no id   *)
(* when the matched `from` field has none.                                 *)
C26_Theorem ==
    diffed =>
        \A i \in DOMAIN diffs :
            isModified(diffs[i]) =>
                LET m == matches[toIndex(diffs[i].key)]
                IN  /\ m # 0
                    /\ Truthy(from[m].field.id) =>
                          ("id" \in DOMAIN diffs[i] /\ diffs[i].id = from[m].field.id)
                    /\ ~Truthy(from[m].field.id) => "id" \notin DOMAIN diffs[i]

(* A field without id is matched by label, under another key, to a `from`  *)
(* field that has an id.                                                   *)
C26_Witness ==
    /\ diffed
    /\ \E i \in DOMAIN diffs :
          /\ isModified(diffs[i])
          /\ "fromKey" \in DOMAIN diffs[i]
          /\ ~Truthy(diffs[i].to.id)
          /\ diffs[i].from.label = diffs[i].to.label
          /\ "id" \in DOMAIN diffs[i] /\ diffs[i].id = "x"

----------------------------------------------------------------------------
(* Claims on DataSource.ensureSchema.                                      *)

(* The updateDataSource requests that the n-th call made.                  *)
updatesOfRound(n) ==
    {i \in DOMAIN adapterCalls :
        adapterCalls[i].method = "updateDataSource" /\ adapterCalls[i].round = n}

(* The differences that the running ensureSchema call started from, and    *)
(* what applySchemaChanges makes of them.                                  *)
ensuredDiff == diffSchema(inferSchemaOf(instances[dThis]), dCall.schema)

ensuredChanges == applySchemaChanges(dCall.schema, ensuredDiff, dCall.strategy)

strictConflict ==
    /\ dCall.strategy = "strict"
    /\ \E i \in DOMAIN ensuredDiff : isRemoved(ensuredDiff[i])

(* C27: a call of ensureSchema makes at most one updateDataSource request; *)
(* it makes none when the differences are empty, when applySchemaChanges   *)
(* returns the empty mapping, or when it raises; under 'strict' with a     *)
(* remote-only field the call ends with the error of applySchemaChanges    *)
(* and no request was made.                                                *)
C27_Theorem ==
    (dCall.method = "ensureSchema") =>
        /\ \A n \in 1..dRound : Cardinality(updatesOfRound(n)) <= 1
        /\ (Len(ensuredDiff) = 0) => updatesOfRound(dRound) = {}
        /\ ensuredChanges.threw => updatesOfRound(dRound) = {}
        /\ (~ensuredChanges.threw /\ DOMAIN ensuredChanges.result = {}) =>
              updatesOfRound(dRound) = {}
        /\ strictConflict =>
              /\ dpc = "ready"
              /\ dOutcome.threw
              /\ dOutcome.message = <<"Unrecognized remote fields: ">>
                      \o join(keysOf(SelectSeq(ensuredDiff, isRemoved)), ", ")
              /\ updatesOfRound(dRound) = {}

(* Under 'strict' the remote schema has a field that the given schema      *)
(* lacks, next to a field that the given schema adds: the call has raised. *)
C27_Witness ==
    /\ dCall.method = "ensureSchema" /\ dpc = "ready"
    /\ strictConflict
    /\ \E i \in DOMAIN ensuredDiff : isAdded(ensuredDiff[i])
    /\ dOutcome.threw
    /\ adapterCalls = <<>>

----------------------------------------------------------------------------
(* Claims on DataSource.upsert.                                            *)

(* The requests of the n-th call, in the order the adapter received them.  *)
callsOfRound(n) == SelectSeq(adapterCalls, LAMBDA c : c.round = n)

methodsOfRound(n) == [i \in DOMAIN callsOfRound(n) |-> callsOfRound(n)[i].method]

(* The filter that the running upsert call has to query with.              *)
upsertFilter == buildUpsertFilter(instances[dThis].schema, dCall.uniqueBy, dCall.data)

upsertRefused == ~hasSchema(instances[dThis]) \/ upsertFilter.threw

(* C28: a call of upsert makes no request at all when the instance has no  *)
(* schema or buildUpsertFilter raises, and it ends with an error; else it  *)
(* first queries the adapter once, for one page, with the filter, and      *)
(* after the query makes one request: updatePage on the id of the page     *)
(* found, or createPage when none was found, never both; it returns after  *)
(* that request.                                                           *)
C28_Theorem ==
    (dCall.method = "upsert") =>
        LET calls == callsOfRound(dRound)
            methods == methodsOfRound(dRound)
        IN  /\ methods \in {<<>>, <<"queryDataSource">>,
                            <<"queryDataSource", "updatePage">>,
                            <<"queryDataSource", "createPage">>}
            /\ upsertRefused =>
                  /\ methods = <<>>
                  /\ dpc = "ready" /\ dOutcome.threw
            /\ ~upsertRefused =>
                  /\ Len(calls) >= 1
                  /\ calls[1].query = [filter |-> upsertFilter.filter, page_size |-> 1]
            /\ Len(calls) = 2 =>
                  /\ dLocals.existing # NoValue =>
                        /\ methods[2] = "updatePage"
                        /\ calls[2].id = dLocals.existing.id
                  /\ dLocals.existing = NoValue => methods[2] = "createPage"
            /\ (dpc = "ready" /\ ~dOutcome.threw) =>
                  /\ Len(calls) = 2
                  /\ dOutcome.page = IF methods[2] = "updatePage" THEN ExistingPage
                                     ELSE CreatedPage

(* The query found no page, createPage was asked for and the call has      *)
(* returned the new page; the filter is a compound one.                    *)
C28_Witness ==
    /\ dCall.method = "upsert" /\ dpc = "ready" /\ ~dOutcome.threw
    /\ methodsOfRound(dRound) = <<"queryDataSource", "createPage">>
    /\ "and" \in DOMAIN adapterCalls[1].query.filter
    /\ dOutcome.page = CreatedPage
    /\ Len(adapterCalls[2].options.properties) = 2

----------------------------------------------------------------------------
(* MatchSpec: a record with an option field is written as insert writes    *)
(* it, and the filter of upsert is built for the same record with the      *)
(* field as its unique key.                                                *)

(* A select or status field under the key a, with or without vocabulary.   *)
MatchField ==
    {[label |-> "L1"] @@ field :
        field \in {f \in CodecField : f.type \in {"select", "status"}}}

MatchInit ==
    /\ SchemaIdle /\ CodecIdle /\ RecordIdle /\ ExprIdle /\ InferIdle /\ FilterIdle
    /\ SourceIdle
    /\ \E field \in MatchField :
          /\ mSchema = <<[key |-> "a", field |-> field]>>
          /\ \E value \in LocalValues(field) : mData = <<[key |-> "a", value |-> value]>>
    /\ mWritten = <<>>
    /\ mFilter = [threw |-> FALSE]
    /\ mpc = "start"

(* const properties = dehydrate(this.schema, data), as insert sends them   *)
WriteRecord ==
    /\ mpc = "start"
    /\ mWritten' = dehydrate(mSchema, mData)
    /\ mpc' = "written"
    /\ UNCHANGED <<mSchema, mData, mFilter>>
    /\ UNCHANGED <<schemaVars, codecVars, recordVars, exprVars, inferVars, filterVars,
                   sourceVars>>

(* const filter = buildUpsertFilter(this.schema, uniqueBy, data), as a     *)
(* later upsert builds it                                                  *)
BuildFilter ==
    /\ mpc = "written"
    /\ mFilter' = buildUpsertFilter(mSchema, <<"a">>, mData)
    /\ mpc' = "filtered"
    /\ UNCHANGED <<mSchema, mData, mWritten>>
    /\ UNCHANGED <<schemaVars, codecVars, recordVars, exprVars, inferVars, filterVars,
                   sourceVars>>

MatchNext ==
    \/ WriteRecord
    \/ BuildFilter

MatchSpec == MatchInit /\ [][MatchNext]_vars

(* The option that the record selects, when it is a declared one.          *)
selectsDeclared ==
    /\ "string" \in DOMAIN mData[1].value
    /\ namesOfKey(mSchema[1].field, mData[1].value.string) # {}

(* The name that insert wrote for the field.                               *)
writtenName ==
    LET property == mWritten[1].value
    IN  IF property.type = "select" THEN property.select.name ELSE property.status.name

(* The operand of the filter on the field.                                 *)
filteredName ==
    IF "select" \in DOMAIN mFilter.filter THEN mFilter.filter.select.equals
    ELSE mFilter.filter.status.equals

(* C29: when the record selects a declared option of the select or status  *)
(* field, the name that the filter of upsert compares with is the name     *)
(* that dehydrate wrote for the field.                                     *)
C29_SameName ==
    (mpc = "filtered" /\ selectsDeclared) =>
        /\ ~mFilter.threw
        /\ Len(mWritten) = 1
        /\ filteredName = writtenName


----------------------------------------------------------------------------
(* Convergence of DataSource.ensureSchema.                                 *)

(* ensureSchema was called twice with the same schema and a strategy that  *)
(* does not refuse remote fields; the first call succeeded (the second is  *)
(* made on the instance it returned).                                      *)
ensuredTwice ==
    /\ dCall.method = "ensureSchema"
    /\ dCall.strategy \in {"merge", "overwrite"}
    /\ dRound = 2

(* C30: after a successful ensureSchema(S, strategy) with 'merge' or       *)
(* 'overwrite', whose properties the store applied, the ensureSchema(S,    *)
(* strategy) that follows makes no updateDataSource request.               *)
C30_Converges ==
    ensuredTwice => updatesOfRound(2) = {}

====
